---- MODULE Spec2Model ----
(***************************************************************************)
(* Model of the upload pipeline of react-native-blob-upload-architecture:  *)
(* UploadOrchestrator.run with its helpers unwrapApi, assertNotAborted,    *)
(* uploadWithRetry, runLimited, clampInt and chunk                         *)
(* (src/src/application/UploadOrchestrator.ts) and the error model of      *)
(* src/src/domain/Errors.ts.                                               *)
(*                                                                         *)
(* Stage and error-code names are the member names the orchestrator        *)
(* writes (UploadStage.Done, UploadErrorCode.MissingUploadPlan, ...). The  *)
(* specification's names map onto them: Validate = Init, StartPlan =       *)
(* StartBatch, Transfer = Upload, Enqueue = EnqueuePostProcessing,         *)
(* Complete = Done, PlanMissing = MissingUploadPlan.                       *)
(*                                                                         *)
(* A synchronous stretch of code between two awaits is one action.  Every  *)
(* awaited collaborator call is a pending state that a later action        *)
(* settles, so the abort signal can change while the call is pending.      *)
(***************************************************************************)
EXTENDS Integers, Sequences, FiniteSets, TLC

\* ------------------------------------------------------------------ bounds
\* largest number of files the scanner / preparer return
MaxFiles == 2

\* ------------------------------------------------------- program constants
\* uploadWithRetry is called with attempts: 3
Attempts == 3
\* uploadWithRetry is called with baseDelayMs: 350
BaseDelayMs == 350
\* req.clientParallelismHint ?? 8
DefaultParallelism == 8
\* clampInt(recommended, 1, 16)
MaxParallelism == 16
\* runLimited: clampInt(parallelism, 1, 64)
MaxLimit == 64

Files == 1..MaxFiles

\* ------------------------------------------------------------ error values
\* A thrown value: an UploadError (kind "UploadError"), a plain Error, the
\* value undefined, or no value at all ("none"; "null" for the initial
\* content of runLimited's firstErr slot).
ErrVal(kind, code, retryable, cause) ==
    [kind |-> kind, code |-> code, retryable |-> retryable, cause |-> cause]

NoErr == ErrVal("none", "", FALSE, "none")
NullErr == ErrVal("null", "", FALSE, "none")
PlainErr == ErrVal("Error", "", FALSE, "none")
UndefErr == ErrVal("undefined", "", FALSE, "none")

\* a retryability table that lists FinalizeMismatch with FinalizeFailed
isRetryable_mismatch(code) ==
    code \in {"NoInternet", "Timeout", "PutFailed", "StartFailed",
              "FinalizeFailed", "FinalizeMismatch", "EnqueueFailed", "Unexpected"}

isRetryable(code) ==
    code \in {"NoInternet", "Timeout", "PutFailed", "StartFailed",
              "FinalizeFailed", "EnqueueFailed", "Unexpected"}

\* new UploadError(code, message, {cause}): retryable defaults by code
UploadError(code, cause) == ErrVal("UploadError", code, isRetryable(code), cause)

\* values a collaborator or an observer callback may throw
ThrowVals == {PlainErr, UndefErr}

\* a ?? b
Coalesce(a, b) == IF a.kind \in {"null", "undefined"} THEN b ELSE a
\* if (e) ...
Truthy(e) == e.kind \notin {"null", "undefined", "none"}

\* --------------------------------------------------------------- pure helpers
Min(a, b) == IF a < b THEN a ELSE b
Max(a, b) == IF a > b THEN a ELSE b

\* An optional number of the request or of a response: a finite integer,
\* a non-finite number (NaN, +-Infinity) or undefined.
Num(n) == [t |-> "num", v |-> n]
NonFinite == [t |-> "nonfinite", v |-> 0]
Absent == [t |-> "absent", v |-> 0]

\* Number.isFinite(n) ? Math.floor(n) : min, then clamped to [min, max]
clampInt(n, min, max) ==
    LET x == IF n.t = "num" THEN n.v ELSE min
    IN  Max(min, Min(max, x))

\* a ?? b for an optional number
OrElse(a, b) == IF a.t = "absent" THEN b ELSE a

RECURSIVE chunkFrom(_, _, _)
chunkFrom(items, size, i) ==
    IF i > Len(items) THEN <<>>
    ELSE <<SubSeq(items, i, Min(i + size - 1, Len(items)))>>
         \o chunkFrom(items, size, i + size)

\* a chunk that keeps full slices only and drops a shorter last one
chunk_dropTail(items, size) ==
    IF size <= 0 THEN <<items>>
    ELSE chunkFrom(SubSeq(items, 1, (Len(items) \div size) * size), size, 1)

chunk(items, size) == IF size <= 0 THEN <<items>> ELSE chunkFrom(items, size, 1)

SeqToSet(s) == {s[k] : k \in 1..Len(s)}

VARIABLES
    req,      \* the SendToCloudRequest passed to run
    aborted,  \* opts.signal.aborted
    run,      \* locals of UploadOrchestrator.run, its result and call counts
    rl,       \* locals of the runLimited call of the current batch
    tk,       \* per file: the state of its upload task (uploadWithRetry)
    retry,    \* one application of a pure function (RetrySpec, ErrorSpec)
    ctl       \* the SendToCloudController and what it has done (CtlSpec only)

vars == <<req, aborted, run, rl, tk, retry, ctl>>

\* ------------------------------------------------------------------ inputs
\* s?.trim(): a missing or whitespace-only string trims to the empty one
Trim(s) == IF s \in {"absent", " "} THEN "" ELSE s

\* a request with the three folder ids and no hints
PlainRequest ==
    [workOrderId |-> "WO-1", batchId |-> "B-1", custPath |-> "cust/path",
     folderIds |-> TRUE, batchSizeHint |-> Absent, clientParallelismHint |-> Absent]

\* the requests run is called with: a plain one, one without folder ids
\* that asks for batches of one file and one upload at a time, and three
\* that lack a required field
Requests ==
    {PlainRequest,
     [PlainRequest EXCEPT !.folderIds = FALSE, !.batchSizeHint = Num(1),
                          !.clientParallelismHint = Num(1)],
     [PlainRequest EXCEPT !.workOrderId = " "],
     [PlainRequest EXCEPT !.batchId = "absent"],
     [PlainRequest EXCEPT !.custPath = " "]}

\* recommendedParallelism values the server may return
Recommended == {Absent, Num(1)}

BatchIds == 0..(MaxFiles - 1)

NoResult == [status |-> "none", finalStage |-> "none", error |-> NoErr,
             msgStage |-> "none", notesLen |-> 0]

\* what a collaborator call returned: ret is "none" (not yet), "throw",
\* "fail" (an ApiResult with ok: false) or "data" (ok: true)
NoStartOut == [ret |-> "none", plan |-> {}]
NoFinOut == [ret |-> "none", finalizeOk |-> FALSE, failed |-> "empty"]

Note(k, a, f) == [k |-> k, a |-> a, f |-> f]

\* what the run was doing when the signal was aborted: whether runLimited
\* was awaited, and the files whose tasks had been started by then
NoAbort == [inUpload |-> FALSE, started |-> {}]

InitRun ==
    [pc |-> "init", stage |-> "PreInit", seen |-> <<>>, notes |-> <<>>,
     scanned |-> 0, prepared |-> <<>>, batchSize |-> 0, i |-> 0,
     plan |-> {}, parallelism |-> 0,
     result |-> NoResult, logErrors |-> 0, caught |-> NoErr, obsThrew |-> FALSE,
     scanCalls |-> 0, prepCalls |-> 0,
     startCalls |-> [b \in BatchIds |-> 0],
     finCalls |-> [b \in BatchIds |-> 0],
     enqCalls |-> [b \in BatchIds |-> 0],
     startOut |-> [b \in BatchIds |-> NoStartOut],
     finOut |-> [b \in BatchIds |-> NoFinOut],
     enqOut |-> [b \in BatchIds |-> "none"],
     atAbort |-> NoAbort,
     fuel |-> 0, obsVal |-> NoErr, thrown |-> NoErr]

NoWorker == [st |-> "none", idx |-> -1]
InitRl == [next |-> 0, firstErr |-> NullErr, wk |-> [w \in Files |-> NoWorker]]
\* attempt: upload attempts made so far; delay: the last backoff slept (ms)
InitTask == [st |-> "idle", attempt |-> 0, delay |-> 0]

\* export const defaultRetryPolicy
defaultRetryPolicy ==
    [maxAttempts |-> 3, baseDelayMs |-> 500, maxDelayMs |-> 8000, jitterMs |-> 200]

\* no retry-policy function has been applied
RetryIdle ==
    [phase |-> "idle", attempt |-> 0, policy |-> defaultRetryPolicy,
     retryable |-> FALSE, rnd |-> 0, fn |-> "none", yes |-> FALSE, ms |-> 0]

\* ---------------------------------------------------- SendToCloudController
\* The controller (application/SendToCloudController.ts) owns one upload at
\* a time: send starts a run of the orchestrator and keeps its promise in
\* inflight, cancel aborts the AbortController in aborter, and listeners of
\* three channels (status, stage, message) are told about every change.
\* The repository holds two editions of the class: the one under
\* src/application ("current") and an earlier one kept with the other
\* fragments ("part_003"), which differ in cancel, in the code after the
\* await, and in reset. CtlSpec runs either edition.
\*
\* The controller sees the orchestrator through its interface only: the
\* call, the stage and note callbacks it makes, and the result it settles
\* with. The promise send returns, the AbortController and the orchestrator
\* run started by the same send share one number k.
\*
\* A call from outside (send, cancel, a subscription, a helper) and the
\* code after the await are one action each: JavaScript runs them to the
\* end, listeners included. A listener runs inside the loop that notifies
\* it, and may call back into the controller from there.
MaxListeners == 2
\* orchestrator runs started, and calls of the helpers (step, fail,
\* complete, reset) made from outside
MaxRuns == 2
MaxHelperCalls == 1
\* stages one run reports after its first await, before it returns: with
\* a result for an empty list, a failure or a cancellation
MaxLaterStages == 3

Listeners == 1..MaxListeners
\* one promise per send that starts a run: from outside or from a listener
Promises == 1..MaxRuns
\* the runs a controller has room for: the promises of its state
RunSlots(c) == DOMAIN c.prom
Versions == {"current", "part_003"}
Channels == {"status", "stage", "message"}
\* what a listener does when it is notified: nothing, throw, unsubscribe
\* itself, or call send on the controller (once: it only observes after that)
Reactions == {"none", "throw", "unsub", "send"}
\* the first listener slot holds a listener of any kind, the others hold
\* listeners that only observe
ReactionsOf(l) == IF l = 1 THEN Reactions ELSE {"none"}

\* private stage: UploadStage = UploadStage.PreInit (part_003: UploadStage.Init)
InitialStage(version) == IF version = "current" THEN "PreInit" ELSE "Init"

\* A listener slot: its channel and reaction, and whether it is subscribed.
\* The other fields describe one operation on the controller: the changes
\* the listener was called with (got, by their number in the channel's log
\* of that operation; 0 is the replay of the current value on subscription),
\* whether it subscribed in that operation (fresh), and, if it unsubscribed in
\* it, the lengths of got and of the channel's log at that moment.
NoListener ==
    [chan |-> "none", react |-> "none", on |-> FALSE,
     got |-> <<>>, fresh |-> FALSE, offAt |-> -1, offLen |-> -1]

\* an orchestrator run: pos is the index of the last stage it reported,
\* fate is "open", "failed" (a fault reached its catch block) or "rejected"
NoOrchRun == [st |-> "none", pos |-> 0, fate |-> "open"]
\* the promise send returned
NoPromise == [st |-> "none", status |-> "none", finalStage |-> "none"]

CtlIdle(version) ==
    [version |-> version,
     status |-> "idle", stage |-> InitialStage(version),
     subs |-> [ch \in Channels |-> <<>>],
     inflight |-> 0, aborter |-> 0,
     exc |-> FALSE, starting |-> 0,
     log |-> [ch \in Channels |-> <<>>],
     ls |-> [l \in Listeners |-> NoListener],
     sig |-> [k \in Promises |-> FALSE],
     runs |-> [k \in Promises |-> NoOrchRun],
     prom |-> [k \in Promises |-> NoPromise],
     nProm |-> 0, sends |-> <<>>,
     helpers |-> 0]

Init ==
    /\ req \in Requests
    /\ aborted = FALSE
    /\ run = InitRun
    /\ rl = InitRl
    /\ tk = [f \in Files |-> InitTask]
    /\ retry = RetryIdle
    /\ ctl = CtlIdle("current")

\* ------------------------------------------------- statements of run's body
\* Each operator maps the run record to the run record. r.thrown holds the
\* value thrown so far in the current synchronous stretch: once it is set,
\* the statements that follow are skipped, as control has left for the catch.
Live(r) == r.thrown.kind = "none"

Throw(r, e) == IF Live(r) THEN [r EXCEPT !.thrown = e] ELSE r

\* A call of an observer callback (opts.onStage, opts.onNote) after the
\* effect that precedes it in the same statement. r.fuel = k > 0 makes the
\* k-th callback of the stretch throw r.obsVal; r.fuel = 0: none throws.
ObsCall(r, after) ==
    IF ~Live(r) THEN r
    ELSE IF r.fuel = 1
         THEN [after EXCEPT !.fuel = 0, !.thrown = r.obsVal, !.obsThrew = TRUE]
    ELSE [after EXCEPT !.fuel = Max(0, r.fuel - 1)]

\* stage = s; setStage(stage)
EnterStage(r, s) == ObsCall(r, [r EXCEPT !.stage = s, !.seen = Append(@, s)])

\* note(msg): notes.push(msg); opts.onNote?.(msg)
note(r, n) == ObsCall(r, [r EXCEPT !.notes = Append(@, n)])

assertNotAborted(r, sig) ==
    IF sig THEN Throw(r, UploadError("Cancelled", "none")) ELSE r

\* unwrapApi(res, code, label): res.ok ? res.data : throw UploadError(code)
unwrapApi(r, ok, code) == IF ok THEN r ELSE Throw(r, UploadError(code, "none"))

\* a catch block that looks at the abort signal only for a Cancelled fault
CatchHandler_faultFirst(r, sig) ==
    IF sig /\ r.thrown.code = "Cancelled"
    THEN [r EXCEPT !.pc = "done",
                   !.caught = r.thrown,
                   !.result = [status |-> "cancelled", finalStage |-> "Error",
                               error |-> NoErr, msgStage |-> "none",
                               notesLen |-> Len(r.notes)]]
    ELSE LET e == IF r.thrown.kind = "UploadError" THEN r.thrown
                  ELSE UploadError("Unexpected", r.thrown.kind)
         IN [r EXCEPT !.pc = "done",
                      !.caught = r.thrown,
                      !.logErrors = @ + 1,
                      !.result = [status |-> "failure", finalStage |-> "Error",
                                  error |-> e, msgStage |-> r.stage,
                                  notesLen |-> Len(r.notes)]]

\* the catch block of run
CatchHandler(r, sig) ==
    IF sig
    THEN [r EXCEPT !.pc = "done",
                   !.caught = r.thrown,
                   !.result = [status |-> "cancelled", finalStage |-> "Error",
                               error |-> NoErr, msgStage |-> "none",
                               notesLen |-> Len(r.notes)]]
    ELSE LET e == IF r.thrown.kind = "UploadError" THEN r.thrown
                  ELSE UploadError("Unexpected", r.thrown.kind)
         IN [r EXCEPT !.pc = "done",
                      !.caught = r.thrown,
                      !.logErrors = @ + 1,
                      !.result = [status |-> "failure", finalStage |-> "Error",
                                  error |-> e, msgStage |-> r.stage,
                                  notesLen |-> Len(r.notes)]]

\* return { status: "success", finalStage: UploadStage.Done, ... }
ReturnSuccess(r) ==
    [r EXCEPT !.pc = "done",
              !.result = [status |-> "success", finalStage |-> "Done",
                          error |-> NoErr, msgStage |-> "none",
                          notesLen |-> Len(r.notes)]]

\* a value thrown outside run's try block would reject the promise run returns
Reject(r) == [r EXCEPT !.pc = "done", !.caught = r.thrown, !.result.status = "rejected"]

\* a run whose catch block handles UploadError only and rethrows other values
Settle_rethrowUnknown(r, sig) ==
    LET q == IF Live(r) THEN r
             ELSE IF r.thrown.kind = "UploadError" THEN CatchHandler(r, sig)
             ELSE Reject(r)
    IN  [q EXCEPT !.fuel = 0, !.obsVal = NoErr, !.thrown = NoErr]

\* The end of a synchronous stretch. Every statement of run from line 106
\* on lies inside the try block: a thrown value goes to the catch block,
\* otherwise the run waits at pc (or has returned).
Settle(r, sig) ==
    LET q == IF Live(r) THEN r ELSE CatchHandler(r, sig)
    IN  [q EXCEPT !.fuel = 0, !.obsVal = NoErr, !.thrown = NoErr]

\* the choice of which observer callback of a stretch throws, and what
MaxObsCalls == 6
Arm(r, k, v) == [r EXCEPT !.fuel = k, !.obsVal = IF k = 0 THEN NoErr ELSE v]
ObsChoices == {<<0, NoErr>>} \cup ((1..MaxObsCalls) \X ThrowVals)

\* const batches = chunk(prepared, batchSize)
Batches(r) == chunk(r.prepared, r.batchSize)
\* const batchFiles = batches[i]
BatchFiles(r) == Batches(r)[r.i + 1]

\* ----------------------------------------------------- collaborator calls
CallScan(r) ==
    IF Live(r) THEN [r EXCEPT !.pc = "scan", !.scanCalls = @ + 1] ELSE r
CallPrepare(r) ==
    IF Live(r) THEN [r EXCEPT !.pc = "prep", !.prepCalls = @ + 1] ELSE r
CallStartBlobBatch(r) ==
    IF Live(r) THEN [r EXCEPT !.pc = "start", !.startCalls[r.i] = @ + 1] ELSE r
CallFinalizeBlobBatch(r) ==
    IF Live(r) THEN [r EXCEPT !.pc = "finalize", !.finCalls[r.i] = @ + 1] ELSE r
CallEnqueue(r) ==
    IF Live(r) THEN [r EXCEPT !.pc = "enqueue", !.enqCalls[r.i] = @ + 1] ELSE r

\* ------------------------------------------------------------ run, by stage
\* 0) Validate: the three required fields, each through ?.trim()
Validate(r) ==
    IF \/ Trim(req.workOrderId) = ""
       \/ Trim(req.batchId) = ""
       \/ Trim(req.custPath) = ""
    THEN Throw(r, UploadError("ValidationFailed", "none"))
    ELSE r

FolderNotes(r) ==
    IF req.folderIds THEN r
    ELSE note(note(note(r, Note("NoWorkOrderFolderId", 0, 0)),
                   Note("NoPdfFolderId", 0, 0)),
              Note("NoImagesFolderId", 0, 0))

\* from the entry of run to the call of fileScanner.scan
RunToScan(r, sig) ==
    CallScan(
      EnterStage(
        assertNotAborted(
          FolderNotes(
            EnterStage(
              Validate(
                EnterStage(assertNotAborted(r, sig), "Init")),
              "Folder")),
          sig),
        "Scan"))

\* the head of the batch loop: the next batch, or the end of the run
BatchBegin(r, sig) ==
    CallStartBlobBatch(
      EnterStage(
        note(assertNotAborted(r, sig),
             Note("Batch", r.i + 1, Len(BatchFiles(r)))),
        "StartBatch"))

\* an end of run that returns finalStage: stage without moving stage to Done
Finish_staleStage(r) == [ReturnSuccess(r) EXCEPT !.result.finalStage = r.stage]

\* stage = UploadStage.Done; setStage(stage); return success
Finish(r) ==
    LET q == EnterStage(r, "Done")
    IN  IF Live(q) THEN ReturnSuccess(q) ELSE q

LoopHead(r, sig) ==
    IF ~Live(r) THEN r
    ELSE IF r.i < Len(Batches(r)) THEN BatchBegin(r, sig)
    ELSE Finish(r)

\* after scan returned n files, to the call of filePrep.prepare
AfterScan(r, n, sig) ==
    LET q == note([r EXCEPT !.scanned = n], Note("Scan", n, 0))
    IN  IF Live(q) /\ n = 0 THEN ReturnSuccess(q)
        ELSE CallPrepare(EnterStage(assertNotAborted(q, sig), "Prep"))

\* after prepare returned m files, to the call of startBlobBatch
AfterPrep(r, m, sig) ==
    LET q == note([r EXCEPT !.prepared = [x \in 1..m |-> x]], Note("Prep", m, 0))
    IN  IF ~Live(q) THEN q
        ELSE IF m = 0 THEN ReturnSuccess(q)
        ELSE LET size == clampInt(OrElse(req.batchSizeHint, Num(m)), 1, m)
                 b == [q EXCEPT !.batchSize = size, !.i = 0]
                 c == IF Len(Batches(b)) > 1
                      THEN note(b, Note("Batching", Len(Batches(b)), size))
                      ELSE b
             IN  LoopHead(c, sig)

\* ------------------------------------------------------------- runLimited
\* S is [next, firstErr, wk, tk]: the shared counter, the first-error slot,
\* the workers and the upload tasks.

\* a worker that claims its next task without looking at the signal
WorkerLoop_noAbortCheck(S, w, files, plan, sig) ==
    LET idx == S.next
        T == [S EXCEPT !.next = idx + 1]
    IN  IF idx >= Len(files)
        THEN [T EXCEPT !.wk[w] = [st |-> "done", idx |-> -1]]
        ELSE LET f == files[idx + 1]
             IN  IF f \notin plan
                 THEN [T EXCEPT
                         !.firstErr = Coalesce(@, UploadError("MissingUploadPlan", "none")),
                         !.tk[f] = [st |-> "fail", attempt |-> 0, delay |-> 0],
                         !.wk[w] = [st |-> "done", idx |-> -1]]
                 ELSE [T EXCEPT
                         !.tk[f] = [st |-> "inflight", attempt |-> 1, delay |-> 0],
                         !.wk[w] = [st |-> "run", idx |-> idx]]

\* One pass of worker w from the top of its while loop to its next await
\* (or its end). A task whose file has no plan entry rejects before it
\* calls the uploader; the worker's catch records it and the worker ends.
WorkerLoop(S, w, files, plan, sig) ==
    IF sig THEN [S EXCEPT !.wk[w] = [st |-> "rej", idx |-> -1]]
    ELSE LET idx == S.next
             T == [S EXCEPT !.next = idx + 1]
         IN  IF idx >= Len(files)
             THEN [T EXCEPT !.wk[w] = [st |-> "done", idx |-> -1]]
             ELSE LET f == files[idx + 1]
                  IN  IF f \notin plan
                      THEN [T EXCEPT
                              !.firstErr = Coalesce(@, UploadError("MissingUploadPlan", "none")),
                              !.tk[f] = [st |-> "fail", attempt |-> 0, delay |-> 0],
                              !.wk[w] = [st |-> "done", idx |-> -1]]
                      ELSE [T EXCEPT
                              !.tk[f] = [st |-> "inflight", attempt |-> 1, delay |-> 0],
                              !.wk[w] = [st |-> "run", idx |-> idx]]

\* Array.from({length}, () => worker()): the workers start one after the
\* other, each running to its first await
RECURSIVE StartWorkers(_, _, _, _, _, _)
StartWorkers(S, w, count, files, plan, sig) ==
    IF w > count THEN S
    ELSE StartWorkers(WorkerLoop(S, w, files, plan, sig), w + 1, count, files, plan, sig)

\* a runLimited that starts one worker per task, whatever the limit
SpawnWorkers_unbounded(tasks, files, plan, parallelism, sig) ==
    LET S0 == [next |-> 0, firstErr |-> NullErr,
               wk |-> [w \in DOMAIN tasks |-> NoWorker], tk |-> tasks]
    IN  StartWorkers(S0, 1, Len(files), files, plan, sig)

\* runLimited up to await Promise.all(workers); parallelism is the number
\* the caller passes, tasks holds one entry per task
SpawnWorkers(tasks, files, plan, parallelism, sig) ==
    LET limit == clampInt(parallelism, 1, MaxLimit)
        S0 == [next |-> 0, firstErr |-> NullErr,
               wk |-> [w \in DOMAIN tasks |-> NoWorker], tk |-> tasks]
    IN  StartWorkers(S0, 1, Min(limit, Len(files)), files, plan, sig)

\* worker w's task failed with e: firstErr = firstErr ?? e; return
WorkerCatch(S, w, f, e) ==
    [S EXCEPT !.firstErr = Coalesce(@, e),
              !.tk[f].st = "fail",
              !.wk[w] = [st |-> "done", idx |-> -1]]

\* Promise.all(workers) has settled: it rejects with the first rejection,
\* and fulfils when every worker has returned
AnyRejected(S) == \E w \in DOMAIN S.wk : S.wk[w].st = "rej"
AllReturned(S) == \A w \in DOMAIN S.wk : S.wk[w].st \in {"none", "done"}
\* a join that settles with the first worker to end (Promise.race)
JoinReady_race(S) == \E w \in DOMAIN S.wk : S.wk[w].st \in {"done", "rej"}
\* a join that waits for every worker to return and never sees a rejection
JoinReady_allReturned(S) == AllReturned(S)
JoinReady(S) == AnyRejected(S) \/ AllReturned(S)

\* what runLimited throws to run once Promise.all has settled (NoErr: it
\* returns)
RunLimitedOutcome(S, sig) ==
    IF AnyRejected(S) \/ sig THEN UploadError("Cancelled", "none")
    ELSE IF Truthy(S.firstErr) THEN S.firstErr
    ELSE NoErr

\* ------------------------------------------------ run, by stage (continued)
\* recommended = startRes.recommendedParallelism ?? (req.clientParallelismHint ?? 8);
\* parallelism = clampInt(recommended, 1, 16)
EffectiveParallelism(rec, hint) ==
    clampInt(OrElse(rec, OrElse(hint, Num(DefaultParallelism))), 1, MaxParallelism)

\* after startBlobBatch returned, to the call of runLimited
AfterStart(r, ok, plan, rec, sig) ==
    LET a == unwrapApi(r, ok, "StartFailed")
        b == IF Live(a) /\ plan = {}
             THEN Throw(a, UploadError("StartFailed", "none"))
             ELSE a
        par == EffectiveParallelism(rec, req.clientParallelismHint)
        c == IF Live(b) THEN [b EXCEPT !.plan = plan, !.parallelism = par] ELSE b
        d == EnterStage(note(c, Note("StartBlobBatch", Cardinality(plan), par)), "Upload")
        e == assertNotAborted(d, sig)
    IN  IF Live(e) THEN [e EXCEPT !.pc = "upload"] ELSE e

\* after runLimited returned, to the call of finalizeBlobBatch
AfterUpload(r, thrown) ==
    LET a == IF thrown.kind = "none" THEN r ELSE Throw(r, thrown)
    IN  CallFinalizeBlobBatch(
          EnterStage(note(a, Note("Upload", 0, 0)), "Finalize"))

\* a finalize step that trusts finalizeOk and never reads uploadedFailed
AfterFinalize_okOnly(r, ok, finalizeOk, failed) ==
    LET a == unwrapApi(r, ok, "FinalizeFailed")
        b == IF Live(a) /\ ~finalizeOk
             THEN Throw(a, UploadError("FinalizeFailed", "none"))
             ELSE a
    IN  CallEnqueue(EnterStage(b, "EnqueuePostProcessing"))

\* after finalizeBlobBatch returned, to the call of enqueueBlobPostProcessing
AfterFinalize(r, ok, finalizeOk, failed) ==
    LET a == unwrapApi(r, ok, "FinalizeFailed")
        b == IF Live(a) /\ ~finalizeOk
             THEN Throw(a, UploadError("FinalizeFailed", "none"))
             ELSE a
        c == IF Live(b) /\ failed = "nonempty"
             THEN Throw(b, UploadError("FinalizeMismatch", "none"))
             ELSE b
    IN  CallEnqueue(EnterStage(c, "EnqueuePostProcessing"))

\* an enqueue step that takes a failed enqueue for an accepted one
AfterEnqueue_ignoreFailure(r, ok, sig) ==
    LET a == note(r, Note("BatchComplete", r.i + 1, 0))
    IN  IF Live(a) THEN LoopHead([a EXCEPT !.i = @ + 1], sig) ELSE a

\* after enqueueBlobPostProcessing returned, to the next batch or the end
AfterEnqueue(r, ok, sig) ==
    LET a == note(unwrapApi(r, ok, "EnqueueFailed"),
                  Note("BatchComplete", r.i + 1, 0))
    IN  IF Live(a) THEN LoopHead([a EXCEPT !.i = @ + 1], sig) ELSE a

\* ------------------------------------------------------------------ actions
Shared == [next |-> rl.next, firstErr |-> rl.firstErr, wk |-> rl.wk, tk |-> tk]

SetShared(S) ==
    /\ rl' = [next |-> S.next, firstErr |-> S.firstErr, wk |-> S.wk]
    /\ tk' = S.tk

\* run is called: validation and the folder notes, up to the scanner call
RunStart ==
    /\ run.pc = "init"
    /\ \E c \in ObsChoices :
         run' = Settle(RunToScan(Arm(run, c[1], c[2]), aborted), aborted)
    /\ UNCHANGED <<ctl, retry, req, aborted, rl, tk>>

ScanReturn ==
    /\ run.pc = "scan"
    /\ \E n \in 0..MaxFiles, c \in ObsChoices :
         run' = Settle(AfterScan(Arm(run, c[1], c[2]), n, aborted), aborted)
    /\ UNCHANGED <<ctl, retry, req, aborted, rl, tk>>

ScanThrow ==
    /\ run.pc = "scan"
    /\ \E e \in ThrowVals : run' = Settle(Throw(run, e), aborted)
    /\ UNCHANGED <<ctl, retry, req, aborted, rl, tk>>

PrepReturn ==
    /\ run.pc = "prep"
    /\ \E m \in 0..run.scanned, c \in ObsChoices :
         run' = Settle(AfterPrep(Arm(run, c[1], c[2]), m, aborted), aborted)
    /\ UNCHANGED <<ctl, retry, req, aborted, rl, tk>>

PrepThrow ==
    /\ run.pc = "prep"
    /\ \E e \in ThrowVals : run' = Settle(Throw(run, e), aborted)
    /\ UNCHANGED <<ctl, retry, req, aborted, rl, tk>>

\* startBlobBatch resolves with ok: true and a plan; run goes on into
\* runLimited, whose workers start their first tasks
StartReturn ==
    /\ run.pc = "start"
    /\ \E plan \in SUBSET SeqToSet(BatchFiles(run)), rec \in Recommended,
          c \in ObsChoices :
         LET r0 == [run EXCEPT !.startOut[run.i] = [ret |-> "data", plan |-> plan]]
             r == AfterStart(Arm(r0, c[1], c[2]), TRUE, plan, rec, aborted)
         IN  /\ run' = Settle(r, aborted)
             /\ IF Live(r)
                THEN SetShared(SpawnWorkers(tk, BatchFiles(r), plan, Num(r.parallelism), aborted))
                ELSE UNCHANGED <<rl, tk>>
    /\ UNCHANGED <<ctl, retry, req, aborted>>

\* startBlobBatch resolves with ok: false
StartFail ==
    /\ run.pc = "start"
    /\ LET r0 == [run EXCEPT !.startOut[run.i] = [ret |-> "fail", plan |-> {}]]
       IN  run' = Settle(AfterStart(r0, FALSE, {}, Absent, aborted), aborted)
    /\ UNCHANGED <<ctl, retry, req, aborted, rl, tk>>

StartThrow ==
    /\ run.pc = "start"
    /\ \E e \in ThrowVals :
         run' = Settle(Throw([run EXCEPT !.startOut[run.i] = [ret |-> "throw", plan |-> {}]], e),
                       aborted)
    /\ UNCHANGED <<ctl, retry, req, aborted, rl, tk>>

\* the file whose task worker w awaits
FileOf(w) == BatchFiles(run)[rl.wk[w].idx + 1]

Uploading(w) ==
    /\ rl.wk[w].st = "run"
    /\ tk[FileOf(w)].st = "inflight"

\* uploader.uploadToSasUrl resolves: the task ends and the worker loops
UploadOk(w) ==
    /\ Uploading(w)
    /\ LET f == FileOf(w)
           S == [Shared EXCEPT !.tk[f].st = "ok"]
       IN  SetShared(WorkerLoop(S, w, BatchFiles(run), run.plan, aborted))
    /\ UNCHANGED <<ctl, retry, req, aborted, run>>

\* a retry loop that allows one attempt more than asked for
RetryExhausted_offByOne(attempt, attempts) == attempt > attempts
\* if (attempt >= opts.attempts) break
RetryExhausted(attempt, attempts) == attempt >= attempts
\* const delay = opts.baseDelayMs * attempt
RetryDelay(baseDelayMs, attempt) == baseDelayMs * attempt

\* a retry that is announced nowhere
onRetry_silent(r, attempt, f) == r
\* a retry that is also reported to the logger as an error
onRetry_logged(r, attempt, f) ==
    note([r EXCEPT !.logErrors = @ + 1], Note("Retry", attempt, f))
\* onRetry: (attempt, err) => note(`Retry ${attempt}/3 for ${file.name} (...)`)
onRetry(r, attempt, f) == note(r, Note("Retry", attempt, f))

\* uploader.uploadToSasUrl rejects: uploadWithRetry's catch. The last
\* attempt breaks out to throw UploadFailed; an earlier one calls
\* opts.onRetry?.(attempt + 1, e) (a note, whose observer may throw) and
\* then clock.sleep.
UploadFail(w) ==
    /\ Uploading(w)
    /\ LET f == FileOf(w)
           attempt == tk[f].attempt
       IN  IF RetryExhausted(attempt, Attempts)
           THEN /\ SetShared(WorkerCatch(Shared, w, f, UploadError("UploadFailed", "Error")))
                /\ UNCHANGED run
           ELSE \E c \in {<<0, NoErr>>} \cup ({1} \X ThrowVals) :
                  LET r == onRetry(Arm(run, c[1], c[2]), attempt + 1, f)
                  IN  /\ run' = [r EXCEPT !.fuel = 0, !.obsVal = NoErr, !.thrown = NoErr]
                      /\ IF Live(r)
                         THEN /\ tk' = [tk EXCEPT ![f].st = "sleep",
                                                  ![f].delay = RetryDelay(BaseDelayMs, attempt)]
                              /\ UNCHANGED rl
                         ELSE SetShared(WorkerCatch(Shared, w, f, r.thrown))
    /\ UNCHANGED <<ctl, retry, req, aborted>>

Sleeping(w) ==
    /\ rl.wk[w].st = "run"
    /\ tk[FileOf(w)].st = "sleep"

\* clock.sleep resolves: the next attempt calls the uploader
SleepDone(w) ==
    /\ Sleeping(w)
    /\ tk' = [tk EXCEPT ![FileOf(w)] = [@ EXCEPT !.st = "inflight", !.attempt = @ + 1]]
    /\ UNCHANGED <<ctl, retry, req, aborted, run, rl>>

\* clock.sleep rejects: the value leaves uploadWithRetry as it is
SleepThrow(w) ==
    /\ Sleeping(w)
    /\ \E e \in ThrowVals : SetShared(WorkerCatch(Shared, w, FileOf(w), e))
    /\ UNCHANGED <<ctl, retry, req, aborted, run>>

\* Promise.all(workers) has settled and runLimited returns or throws to run
Join ==
    /\ run.pc = "upload"
    /\ JoinReady(Shared)
    /\ \E c \in ObsChoices :
         run' = Settle(AfterUpload(Arm(run, c[1], c[2]), RunLimitedOutcome(Shared, aborted)),
                       aborted)
    /\ UNCHANGED <<ctl, retry, req, aborted, rl, tk>>

FinalizeReturn ==
    /\ run.pc = "finalize"
    /\ \E finalizeOk \in BOOLEAN, failed \in {"empty", "nonempty"},
          c \in ObsChoices :
         LET r0 == [run EXCEPT !.finOut[run.i] =
                       [ret |-> "data", finalizeOk |-> finalizeOk, failed |-> failed]]
         IN  run' = Settle(AfterFinalize(Arm(r0, c[1], c[2]), TRUE, finalizeOk, failed),
                           aborted)
    /\ UNCHANGED <<ctl, retry, req, aborted, rl, tk>>

FinalizeFail ==
    /\ run.pc = "finalize"
    /\ LET r0 == [run EXCEPT !.finOut[run.i] =
                     [ret |-> "fail", finalizeOk |-> FALSE, failed |-> "empty"]]
       IN  run' = Settle(AfterFinalize(r0, FALSE, FALSE, "empty"), aborted)
    /\ UNCHANGED <<ctl, retry, req, aborted, rl, tk>>

FinalizeThrow ==
    /\ run.pc = "finalize"
    /\ \E e \in ThrowVals :
         LET r0 == [run EXCEPT !.finOut[run.i] =
                       [ret |-> "throw", finalizeOk |-> FALSE, failed |-> "empty"]]
         IN  run' = Settle(Throw(r0, e), aborted)
    /\ UNCHANGED <<ctl, retry, req, aborted, rl, tk>>

EnqueueReturn ==
    /\ run.pc = "enqueue"
    /\ \E c \in ObsChoices :
         run' = Settle(AfterEnqueue(Arm([run EXCEPT !.enqOut[run.i] = "data"], c[1], c[2]),
                                    TRUE, aborted),
                       aborted)
    /\ UNCHANGED <<ctl, retry, req, aborted, rl, tk>>

EnqueueFail ==
    /\ run.pc = "enqueue"
    /\ run' = Settle(AfterEnqueue([run EXCEPT !.enqOut[run.i] = "fail"], FALSE, aborted),
                     aborted)
    /\ UNCHANGED <<ctl, retry, req, aborted, rl, tk>>

EnqueueThrow ==
    /\ run.pc = "enqueue"
    /\ \E e \in ThrowVals :
         run' = Settle(Throw([run EXCEPT !.enqOut[run.i] = "throw"], e), aborted)
    /\ UNCHANGED <<ctl, retry, req, aborted, rl, tk>>

\* the caller aborts the signal while the run is active
Abort ==
    /\ ~aborted
    /\ run.pc # "done"
    /\ aborted' = TRUE
    /\ run' = [run EXCEPT !.atAbort =
                  IF run.pc = "upload"
                  THEN [inUpload |-> TRUE, started |-> {f \in Files : tk[f].st # "idle"}]
                  ELSE NoAbort]
    /\ UNCHANGED <<ctl, retry, req, rl, tk>>

WorkerStep ==
    \E w \in Files : UploadOk(w) \/ UploadFail(w) \/ SleepDone(w) \/ SleepThrow(w)

Next ==
    \/ RunStart
    \/ ScanReturn
    \/ ScanThrow
    \/ PrepReturn
    \/ PrepThrow
    \/ StartReturn
    \/ StartFail
    \/ StartThrow
    \/ WorkerStep
    \/ Join
    \/ FinalizeReturn
    \/ FinalizeFail
    \/ FinalizeThrow
    \/ EnqueueReturn
    \/ EnqueueFail
    \/ EnqueueThrow
    \/ Abort

Spec == Init /\ [][Next]_vars

\* ------------------------------------------------------ runLimited by itself
\* runLimited is a function of its own: any caller may hand it any list of
\* tasks and any number as parallelism. PoolSpec runs one call of it with
\* up to MaxTasks tasks that each resolve or reject once, under a signal
\* that may be aborted at any time. rl carries, next to the locals of
\* runLimited, the record of what happened: the order in which tasks were
\* started, the values the workers' catch blocks received, and what the
\* call settled with. run and req are not used and stay as they are.
MaxTasks == 3
PoolTasks == 1..MaxTasks

\* numbers a caller may pass as parallelism
PoolParallelism == {Num(-1), Num(0), Num(1), Num(2), Num(100), NonFinite}
\* startRes.recommendedParallelism and req.clientParallelismHint
PoolRecommended == {Absent, Num(0), Num(2), Num(100), NonFinite}
PoolHints == {Absent, Num(-1), Num(1)}

\* the value task t rejects with: its own Error, or nothing (undefined)
TaskErr(t) == ErrVal("Error", "task", FALSE, ToString(t))
TaskErrs(t) == {TaskErr(t), UndefErr}

PoolIdle ==
    [next |-> 0, firstErr |-> NullErr, wk |-> [w \in PoolTasks |-> NoWorker],
     phase |-> "idle", n |-> 0, arg |-> Absent,
     from |-> "none", rec |-> Absent, hint |-> Absent,
     out |-> NoErr, order |-> <<>>, recorded |-> <<>>,
     startedAtFail |-> -1, liveAtSettle |-> {}]

PoolInit ==
    /\ req = PlainRequest
    /\ aborted = FALSE
    /\ run = InitRun
    /\ rl = PoolIdle
    /\ tk = [t \in PoolTasks |-> InitTask]
    /\ retry = RetryIdle
    /\ ctl = CtlIdle("current")

\* the tasks of the call: task t is tasks[t - 1]
PoolFiles == [t \in 1..rl.n |-> t]
InFlightTasks == {t \in PoolTasks : tk[t].st = "inflight"}

\* the workers Array.from started, in the order it started them, each with
\* the task it claimed
SpawnOrder(S) ==
    LET count == Cardinality({w \in DOMAIN S.wk : S.wk[w].st = "run"})
    IN  [w \in 1..count |-> S.wk[w].idx + 1]

\* rl and tk after a step that leaves runLimited's locals as S; e is the
\* value a worker's catch block received in the step (NoErr: none)
PoolSet(S, e) ==
    LET started == {t \in PoolTasks : S.tk[t].st = "inflight" /\ tk[t].st # "inflight"}
        order == IF started = {} THEN rl.order
                 ELSE Append(rl.order, CHOOSE t \in started : TRUE)
        recorded == IF e = NoErr THEN rl.recorded ELSE Append(rl.recorded, e)
    IN  /\ rl' = [rl EXCEPT !.next = S.next, !.firstErr = S.firstErr, !.wk = S.wk,
                            !.order = order, !.recorded = recorded,
                            !.startedAtFail =
                                IF e # NoErr /\ rl.recorded = <<>> THEN Len(order) ELSE @]
        /\ tk' = S.tk

\* runLimited(tasks, parallelism, signal) is called with n tasks
PoolEnter(n, p, from, rec, hint) ==
    /\ IF aborted
       THEN /\ rl' = [rl EXCEPT !.phase = "settled", !.n = n, !.arg = p, !.from = from,
                                !.rec = rec, !.hint = hint,
                                !.out = UploadError("Cancelled", "none")]
            /\ UNCHANGED tk
       ELSE LET S == SpawnWorkers(tk, [t \in 1..n |-> t], PoolTasks, p, aborted)
            IN  /\ rl' = [rl EXCEPT !.next = S.next, !.firstErr = S.firstErr, !.wk = S.wk,
                                    !.phase = "awaiting", !.n = n, !.arg = p,
                                    !.from = from, !.rec = rec, !.hint = hint,
                                    !.order = SpawnOrder(S)]
                /\ tk' = S.tk
    /\ UNCHANGED <<ctl, retry, req, aborted, run>>

\* a caller passes a number of its own
PoolCall ==
    /\ rl.phase = "idle"
    /\ \E n \in 0..MaxTasks, p \in PoolParallelism :
         PoolEnter(n, p, "direct", Absent, Absent)

\* the orchestrator passes the parallelism it computed for the batch
PoolCallFromRun ==
    /\ rl.phase = "idle"
    /\ \E n \in 1..MaxTasks, rec \in PoolRecommended, hint \in PoolHints :
         PoolEnter(n, Num(EffectiveParallelism(rec, hint)), "run", rec, hint)

PoolTaskOf(w) == rl.wk[w].idx + 1

PoolRunning(w) ==
    /\ rl.wk[w].st = "run"
    /\ tk[PoolTaskOf(w)].st = "inflight"

\* the task worker w awaits resolves: the worker loops
PoolTaskOk(w) ==
    /\ PoolRunning(w)
    /\ LET S == [Shared EXCEPT !.tk[PoolTaskOf(w)].st = "ok"]
       IN  PoolSet(WorkerLoop(S, w, PoolFiles, PoolTasks, aborted), NoErr)
    /\ UNCHANGED <<ctl, retry, req, aborted, run>>

\* the task worker w awaits rejects: the worker's catch
PoolTaskFail(w) ==
    /\ PoolRunning(w)
    /\ \E e \in TaskErrs(PoolTaskOf(w)) :
         PoolSet(WorkerCatch(Shared, w, PoolTaskOf(w), e), e)
    /\ UNCHANGED <<ctl, retry, req, aborted, run>>

\* await Promise.all(workers) is over: runLimited returns or throws
PoolJoin ==
    /\ rl.phase = "awaiting"
    /\ JoinReady(Shared)
    /\ rl' = [rl EXCEPT !.phase = "settled",
                        !.out = RunLimitedOutcome(Shared, aborted),
                        !.liveAtSettle = InFlightTasks]
    /\ UNCHANGED <<ctl, retry, req, aborted, run, tk>>

\* the signal is aborted before or during the call
PoolAbort ==
    /\ ~aborted
    /\ rl.phase # "settled"
    /\ aborted' = TRUE
    /\ UNCHANGED <<ctl, retry, req, run, rl, tk>>

PoolWorkerStep == \E w \in PoolTasks : PoolTaskOk(w) \/ PoolTaskFail(w)

PoolNext ==
    \/ PoolCall
    \/ PoolCallFromRun
    \/ PoolWorkerStep
    \/ PoolJoin
    \/ PoolAbort

PoolSpec == PoolInit /\ [][PoolNext]_vars

\* ------------------------------------------------- the retry-policy functions
\* shouldRetry, computeBackoffMs (domain/Errors.ts), backoffMs (the older
\* error module) and the delay of uploadWithRetry are functions of their
\* arguments. RetrySpec draws the arguments in its initial state and each
\* action applies one of the functions to them.
MaxAttempt == 6
RetryAttempts == 1..MaxAttempt

\* Math.random() takes the values k / RandomSteps, k < RandomSteps
RandomSteps == 4
Randoms == 0..(RandomSteps - 1)

Policies ==
    {defaultRetryPolicy,
     [maxAttempts |-> 2, baseDelayMs |-> 350, maxDelayMs |-> 1000, jitterMs |-> 0],
     [maxAttempts |-> 5, baseDelayMs |-> 100, maxDelayMs |-> 250, jitterMs |-> 30]}

RECURSIVE Pow2(_)
\* Math.pow(2, n) for an integer n >= 0
Pow2(n) == IF n <= 0 THEN 1 ELSE 2 * Pow2(n - 1)

\* Math.floor(Math.random() * x), with Math.random() = rnd / RandomSteps
RandomBelow(x, rnd) == (rnd * x) \div RandomSteps

\* if (!err.retryable) return false; return attempt < policy.maxAttempts
shouldRetry(err, attempt, policy) ==
    IF ~err.retryable THEN FALSE ELSE attempt < policy.maxAttempts

\* a backoff that never caps the exponential delay
computeBackoffMs_unclamped(attempt, policy, rnd) ==
    policy.baseDelayMs * Pow2(Max(0, attempt - 1)) + RandomBelow(policy.jitterMs, rnd)

\* raw = base * 2^max(0, attempt - 1); min(raw, maxDelayMs) + floor(random * jitterMs)
computeBackoffMs(attempt, policy, rnd) ==
    LET raw == policy.baseDelayMs * Pow2(Max(0, attempt - 1))
        clamped == Min(raw, policy.maxDelayMs)
        jitter == RandomBelow(policy.jitterMs, rnd)
    IN  clamped + jitter

\* the jitter range of backoffMs: Math.floor(Math.random() * 150)
BackoffJitterMs == 150

\* backoffMs(attempt, baseMs, maxMs) of the older error module
backoffMs(attempt, baseMs, maxMs, rnd) ==
    LET pow == Min(maxMs, baseMs * Pow2(Max(0, attempt - 1)))
        jitter == RandomBelow(BackoffJitterMs, rnd)
    IN  Min(maxMs, pow + jitter)

RetryInit ==
    /\ req = PlainRequest
    /\ aborted = FALSE
    /\ run = InitRun
    /\ rl = InitRl
    /\ tk = [f \in Files |-> InitTask]
    /\ \E a \in RetryAttempts, p \in Policies, r \in BOOLEAN, k \in Randoms :
         retry = [RetryIdle EXCEPT !.phase = "args", !.attempt = a, !.policy = p,
                                   !.retryable = r, !.rnd = k]
    /\ ctl = CtlIdle("current")

\* the result of applying fn to the arguments drawn
Applied(fn, yes, ms) ==
    /\ retry.phase = "args"
    /\ retry' = [retry EXCEPT !.phase = "result", !.fn = fn, !.yes = yes, !.ms = ms]
    /\ UNCHANGED <<ctl, req, aborted, run, rl, tk>>

ApplyShouldRetry ==
    /\ retry.phase = "args"
    /\ Applied("shouldRetry",
               shouldRetry(UploadError(IF retry.retryable THEN "PutFailed" ELSE "InvalidInput",
                                       "none"),
                           retry.attempt, retry.policy),
               0)

ApplyComputeBackoffMs ==
    /\ retry.phase = "args"
    /\ Applied("computeBackoffMs", FALSE,
               computeBackoffMs(retry.attempt, retry.policy, retry.rnd))

ApplyBackoffMs ==
    /\ retry.phase = "args"
    /\ Applied("backoffMs", FALSE,
               backoffMs(retry.attempt, retry.policy.baseDelayMs,
                         retry.policy.maxDelayMs, retry.rnd))

\* uploadWithRetry, as the orchestrator calls it, after failed attempt a:
\* it sleeps (yes) for the delay, unless the attempts are used up
ApplyUploadWithRetry ==
    /\ retry.phase = "args"
    /\ IF RetryExhausted(retry.attempt, Attempts)
       THEN Applied("uploadWithRetry", FALSE, 0)
       ELSE Applied("uploadWithRetry", TRUE, RetryDelay(BaseDelayMs, retry.attempt))

RetryNext ==
    \/ ApplyShouldRetry
    \/ ApplyComputeBackoffMs
    \/ ApplyBackoffMs
    \/ ApplyUploadWithRetry

RetrySpec == RetryInit /\ [][RetryNext]_vars

\* the orchestrator runs that were called and have not settled
ActiveRuns(c) == {k \in RunSlots(c) : c.runs[k].st = "active"}
\* the run in progress as send is called: the one a send further up the
\* call stack is starting, or one that is active
During(c) ==
    IF c.starting # 0 THEN c.starting
    ELSE IF ActiveRuns(c) # {} THEN CHOOSE k \in ActiveRuns(c) : \A j \in ActiveRuns(c) : k <= j
    ELSE 0

\* The statements of the code run one after the other, each on the state
\* the one before it has left: e is that state, worked out once, and F what
\* follows.
Then(e, F(_)) == CHOOSE r \in {F(x) : x \in {e}} : TRUE

RECURSIVE Notify(_, _, _, _)
RECURSIVE SendSync(_, _, _)

\* the unsubscribe function: () => this.statusListeners.delete(fn)
Unsubscribe(c, l) ==
    LET me == c.ls[l]
    IN  IF ~me.on THEN c
        ELSE [c EXCEPT !.subs[me.chan] = SelectSeq(@, LAMBDA x : x # l),
                       !.ls[l].on = FALSE,
                       !.ls[l].offAt = Len(me.got),
                       !.ls[l].offLen = Len(c.log[me.chan])]

\* fn(value): listener l is called with change number idx of its channel
Deliver(c, l, idx) ==
    Then([c EXCEPT !.ls[l].got = Append(@, idx)], LAMBDA c1 :
        CASE c1.ls[l].react = "throw" -> [c1 EXCEPT !.exc = TRUE]
          [] c1.ls[l].react = "unsub" -> Unsubscribe(c1, l)
          [] c1.ls[l].react = "send" /\ c1.nProm < Cardinality(RunSlots(c1)) ->
                SendSync([c1 EXCEPT !.ls[l].react = "none"], l, TRUE)
          [] OTHER -> c1)

\* for (const fn of listeners) fn(next): a Set is iterated in insertion
\* order and live, so a listener removed before its turn is skipped; a
\* listener that throws ends the loop
Notify(c, ch, idx, visited) ==
    Then(c, LAMBDA c1 :
        IF c1.exc THEN c1
        ELSE LET todo == SelectSeq(c1.subs[ch], LAMBDA l : l \notin visited)
             IN  IF todo = <<>> THEN c1
                 ELSE Notify(Deliver(c1, todo[1], idx), ch, idx,
                             visited \cup {todo[1]}))

\* a change of channel ch is logged and its listeners are notified
Emit(c, ch, v) ==
    Notify([c EXCEPT !.log[ch] = Append(@, v)], ch, Len(c.log[ch]) + 1, {})

\* private setStatus(next)
setStatus(c, next) ==
    Then(c, LAMBDA c1 :
        IF c1.exc THEN c1 ELSE Emit([c1 EXCEPT !.status = next], "status", next))
\* private setStage(next)
setStage(c, next) ==
    Then(c, LAMBDA c1 :
        IF c1.exc THEN c1 ELSE Emit([c1 EXCEPT !.stage = next], "stage", next))
\* private say(msg)
say(c, msg) ==
    Then(c, LAMBDA c1 : IF c1.exc THEN c1 ELSE Emit(c1, "message", msg))

\* step(stage, message)
step(c, s) == say(setStage(c, s), "Step")
\* fail(reason); part_003 also moves the stage to Failure
fail(c) ==
    IF c.version = "current" THEN say(setStatus(c, "failure"), "failed")
    ELSE say(setStage(setStatus(c, "failure"), "Failure"), "failed")
\* complete()
complete(c) ==
    say(setStage(setStatus(c, "success"),
                 IF c.version = "current" THEN "Done" ELSE "Complete"),
        "Complete.")
\* reset() of part_003
reset(c) == setStatus(setStage(c, "Init"), "idle")

\* ------------------------------------------- the orchestrator, as a callee
\* the stages a run reports through onStage, in order (one batch)
OrchStages(version) ==
    IF version = "current"
    THEN <<"Init", "Folder", "Scan", "Prep", "StartBatch", "Upload",
           "Finalize", "EnqueuePostProcessing", "Done">>
    ELSE <<"Init", "Scan", "Prep", "Start", "Upload", "Finalize",
           "Enqueue", "Complete">>
\* the stages run reports before its first await (fileScanner.scan)
OrchPrefix(version) == IF version = "current" THEN 3 ELSE 2
\* the stages before which run calls assertNotAborted(signal)
OrchChecked(version) ==
    IF version = "current" THEN {"Init", "Scan", "Prep", "StartBatch"} ELSE {}
\* the stages after which run may return { status: "success" }: the two
\* early returns for an empty list, and the end
OrchSuccessAt(version) ==
    IF version = "current" THEN {"Scan", "Prep", "Done"} ELSE {"Scan", "Complete"}

\* the onStage callback the controller hands to the orchestrator.
\* current: setStage(s); say(`Stage: ${s}`). part_003: throw if the signal
\* is aborted, else step(s, `Stage: ${s}`)
OnStage(c, k, s) ==
    IF c.version = "part_003" /\ c.sig[k] THEN [c EXCEPT !.exc = TRUE]
    ELSE say(setStage(c, s), "Stage")

\* a fault inside run: its try block catches it, except that the older
\* run reports its first stage before the try block
Fault(c, k, pos) ==
    [c EXCEPT !.exc = FALSE,
              !.runs[k].fate =
                  IF c.version = "part_003" /\ pos = 1 THEN "rejected" ELSE "failed"]

\* run k moves to its next stage and reports it
OrchReport(c, k) ==
    LET pos == c.runs[k].pos + 1
        s == OrchStages(c.version)[pos]
    IN  IF s \in OrchChecked(c.version) /\ c.sig[k] THEN Fault(c, k, pos)
        ELSE Then(OnStage([c EXCEPT !.runs[k].pos = pos], k, s), LAMBDA c1 :
                 IF c1.exc THEN Fault(c1, k, pos) ELSE c1)

\* run k records a note: onNote: (m) => this.say(m)
OrchNote(c, k) ==
    Then(say(c, "note"), LAMBDA c1 :
        IF c1.exc THEN Fault(c1, k, c1.runs[k].pos) ELSE c1)

\* the stage after which run notes the folder ids the request lacks
OrchNotesAfter(version) == IF version = "current" THEN "Folder" ELSE "none"

\* orchestrator.run(...) is called: run k goes up to its first await;
\* reqOk tells whether the request carries its folder ids
RECURSIVE OrchUpTo(_, _, _, _)
OrchUpTo(c, k, n, reqOk) ==
    Then(c, LAMBDA c0 :
        IF c0.runs[k].pos >= n \/ c0.runs[k].fate # "open" THEN c0
        ELSE Then(OrchReport(c0, k), LAMBDA c1 :
                 LET noted == /\ ~reqOk
                              /\ c1.runs[k].fate = "open"
                              /\ OrchStages(c1.version)[c1.runs[k].pos]
                                     = OrchNotesAfter(c1.version)
                 IN  OrchUpTo(IF noted THEN OrchNote(c1, k) ELSE c1, k, n, reqOk)))

OrchBegin(c, k, reqOk) ==
    OrchUpTo([c EXCEPT !.runs[k] = [NoOrchRun EXCEPT !.st = "active"]], k,
             OrchPrefix(c.version), reqOk)

\* what run k may settle with: ok stands for status success (ok: true)
OrchOutcomes(c, k) ==
    LET r == c.runs[k]
        s == IF r.pos = 0 THEN "none" ELSE OrchStages(c.version)[r.pos]
    IN  IF r.fate = "rejected" THEN {[kind |-> "reject", status |-> "none", finalStage |-> "none"]}
        ELSE IF c.version = "current"
        THEN (IF r.fate = "open" /\ s \in OrchSuccessAt(c.version)
              THEN {[kind |-> "result", status |-> "success", finalStage |-> "Done"]}
              ELSE {})
             \cup {[kind |-> "result",
                    status |-> IF c.sig[k] THEN "cancelled" ELSE "failure",
                    finalStage |-> "Error"]}
        ELSE (IF r.fate = "open" /\ s \in OrchSuccessAt(c.version)
              THEN {[kind |-> "result", status |-> "success", finalStage |-> s]}
              ELSE {})
             \cup {[kind |-> "result", status |-> "failure", finalStage |-> s]}

\* ------------------------------------------------------------ send, cancel
Settled(c, k, st, status, finalStage) ==
    [c EXCEPT !.exc = FALSE,
              !.prom[k] = [st |-> IF c.exc THEN "rejected" ELSE st,
                           status |-> IF c.exc THEN "none" ELSE status,
                           finalStage |-> IF c.exc THEN "none" ELSE finalStage]]

\* finally { this.inflight = null; this.aborter = null }
Finally(c) == [c EXCEPT !.inflight = 0, !.aborter = 0]

\* the catch block of send's async function, and what follows it
CatchOf(c, k) ==
    LET c0 == [c EXCEPT !.exc = FALSE]
        stage == c0.stage
    IN  IF c0.sig[k]
        THEN Then(IF c.version = "current" THEN setStatus(c0, "cancelled")
                  ELSE say(setStatus(c0, "cancelled"), "Upload cancelled."),
                  LAMBDA a : Settled(Finally(a), k, "resolved", "cancelled", stage))
        ELSE Then(IF c.version = "current" THEN setStatus(c0, "failure")
                  ELSE fail(c0),
                  LAMBDA a : Settled(Finally(a), k, "resolved", "failure", stage))

\* "Upload complete.", "Upload cancelled." or "Upload failed."
EndMessage(status) ==
    CASE status = "success" -> "Upload complete."
      [] status = "cancelled" -> "Upload cancelled."
      [] OTHER -> "Upload failed."

\* the code after await this.orchestrator.run(...), o being what the
\* orchestrator settled with
Conclude(c, k, o) ==
    IF o.kind = "reject" THEN CatchOf(c, k)
    ELSE IF c.version = "part_003" /\ c.sig[k]
    THEN Then(say(setStatus(c, "cancelled"), "Upload cancelled."), LAMBDA a :
             IF a.exc THEN CatchOf(a, k)
             ELSE Settled(Finally(a), k, "resolved", "cancelled", c.stage))
    ELSE Then(say(setStatus(setStage(c, o.finalStage), o.status), EndMessage(o.status)),
              LAMBDA a :
             IF a.exc THEN CatchOf(a, k)
             ELSE Settled(Finally(a), k, "resolved", o.status, o.finalStage))

\* send's async function, from its start to its first await. reqOk tells
\* whether the request carries what the code looks for: part_003 first
\* builds the orchestrator input, which throws for a missing
\* customerPathToRoot; the current run notes the folder ids that are missing
StartRun(c, k, reqOk) ==
    LET c1 == [c EXCEPT !.prom[k].st = "pending"]
    IN  IF c.version = "part_003" /\ ~reqOk
        THEN CatchOf([c1 EXCEPT !.exc = TRUE], k)
        ELSE OrchBegin(c1, k, reqOk)

\* one call of send, recorded: who called (0: from outside), the promise
\* returned (0: send threw) and the run in progress at the call
SendRec(by, got, during) == [by |-> by, got |-> got, during |-> during]

\* send(req)
SendSync(c, by, reqOk) ==
    Then(c, LAMBDA c0 :
        IF c0.exc THEN c0
        ELSE IF c0.inflight # 0
        THEN [c0 EXCEPT !.sends = Append(@, SendRec(by, c0.inflight, During(c0)))]
        ELSE LET k == c0.nProm + 1
                 c1 == [c0 EXCEPT !.nProm = k, !.aborter = k, !.starting = k]
             IN  Then(say(setStage(setStatus(c1, "running"), InitialStage(c0.version)),
                          "Starting upload"), LAMBDA c2 :
                 Then(IF c2.exc THEN c2 ELSE StartRun(c2, k, reqOk), LAMBDA c3 :
                     [c3 EXCEPT !.inflight = IF c3.exc THEN @ ELSE k,
                                !.starting = c0.starting,
                                !.sends = Append(@, SendRec(by, IF c3.exc THEN 0 ELSE k,
                                                            During(c0)))])))

\* cancel(reason); part_003 sets the status before it aborts
CancelSync(c) ==
    IF c.exc \/ c.aborter = 0 THEN c
    ELSE Then(IF c.version = "current" THEN say(c, "User cancelled")
              ELSE setStatus(say(c, "User cancelled"), "cancelled"), LAMBDA b :
             IF b.exc THEN b
             ELSE IF b.aborter = 0 THEN [b EXCEPT !.exc = TRUE]
             ELSE [b EXCEPT !.sig[b.aborter] = TRUE])

\* ---------------------------------------------------- controller: actions
\* What one operation does to the controller is computed in full: the
\* fields log, sends, got, fresh, offAt and offLen of the result describe
\* that operation alone. The state keeps what the next operation can
\* depend on: EndCall clears the description, the exception that reached
\* the caller, the slots of listeners that have unsubscribed and the
\* details of runs that have settled, their signals included.
EndCall(c) ==
    [c EXCEPT !.exc = FALSE,
              !.log = [ch \in Channels |-> <<>>],
              !.sends = <<>>,
              !.ls = [l \in Listeners |->
                        IF c.ls[l].on
                        THEN [c.ls[l] EXCEPT !.got = <<>>, !.fresh = FALSE]
                        ELSE NoListener],
              !.sig = [k \in RunSlots(c) |-> c.sig[k] /\ c.runs[k].st # "settled"],
              !.runs = [k \in RunSlots(c) |->
                          IF c.runs[k].st = "settled"
                          THEN [NoOrchRun EXCEPT !.st = "settled"] ELSE c.runs[k]],
              !.prom = [k \in RunSlots(c) |->
                          IF c.prom[k].st \in {"resolved", "rejected"}
                          THEN [NoPromise EXCEPT !.st = c.prom[k].st] ELSE c.prom[k]]]

\* onStatus(fn), onStage(fn): add, then fn(current value); onMessage(fn): add
Subscribe(c, l, ch, react) ==
    [c EXCEPT !.subs[ch] = Append(@, l),
              !.ls[l] = [NoListener EXCEPT
                           !.chan = ch, !.react = react, !.on = TRUE,
                           !.fresh = TRUE,
                           !.got = IF ch = "message" THEN <<>> ELSE <<0>>]]

\* the results of the calls that can be made on controller c from outside
SendCalls(c) ==
    IF c.inflight # 0 \/ c.nProm < Cardinality(RunSlots(c))
    THEN {SendSync(c, 0, reqOk) : reqOk \in BOOLEAN} ELSE {}
CancelCalls(c) == {CancelSync(c)}
SubscribeCalls(c) ==
    UNION {{Subscribe(c, l, ch, react) : ch \in Channels, react \in ReactionsOf(l)} :
              l \in {x \in Listeners : ~c.ls[x].on}}
UnsubscribeCalls(c) == {Unsubscribe(c, l) : l \in {x \in Listeners : c.ls[x].on}}
HelperCalls(c) ==
    IF c.helpers >= MaxHelperCalls THEN {}
    ELSE LET c1 == [c EXCEPT !.helpers = @ + 1]
         IN  {step(c1, s) : s \in {"Init", "Upload"}}
               \cup {fail(c1), complete(c1)}
               \cup (IF c.version = "part_003" THEN {reset(c1)} ELSE {})
\* the results of the steps the orchestrator can take: a stage, a note, the end
StageSteps(c) ==
    {OrchReport(c, k) :
        k \in {j \in ActiveRuns(c) : /\ c.runs[j].fate = "open"
                                     /\ c.runs[j].pos < Len(OrchStages(c.version))
                                     /\ c.runs[j].pos < OrchPrefix(c.version) + MaxLaterStages}}
NoteSteps(c) ==
    IF c.version # "current" THEN {}
    ELSE {OrchNote(c, k) : k \in {j \in ActiveRuns(c) : c.runs[j].fate = "open"}}
ReturnSteps(c) ==
    UNION {{Conclude([c EXCEPT !.runs[k].st = "settled"], k, o) : o \in OrchOutcomes(c, k)} :
              k \in ActiveRuns(c)}

CtlInit ==
    /\ req = PlainRequest
    /\ aborted = FALSE
    /\ run = InitRun
    /\ rl = InitRl
    /\ tk = [f \in Files |-> InitTask]
    /\ retry = RetryIdle
    /\ ctl \in {CtlIdle(v) : v \in Versions}

CtlRest == UNCHANGED <<retry, req, aborted, run, rl, tk>>

\* send is called from outside
CtlSend ==
    /\ \E r \in SendCalls(ctl) : ctl' = EndCall(r)
    /\ CtlRest

\* cancel is called from outside
CtlCancel ==
    /\ \E r \in CancelCalls(ctl) : ctl' = EndCall(r)
    /\ CtlRest

CtlSubscribe ==
    /\ \E r \in SubscribeCalls(ctl) : ctl' = EndCall(r)
    /\ CtlRest

CtlUnsubscribe ==
    /\ \E r \in UnsubscribeCalls(ctl) : ctl' = EndCall(r)
    /\ CtlRest

\* one of the helpers step, fail, complete and (part_003) reset is called
CtlHelper ==
    /\ \E r \in HelperCalls(ctl) : ctl' = EndCall(r)
    /\ CtlRest

\* an active run reports its next stage
CtlOrchStage ==
    /\ \E r \in StageSteps(ctl) : ctl' = EndCall(r)
    /\ CtlRest

\* an active run records a note
CtlOrchNote ==
    /\ \E r \in NoteSteps(ctl) : ctl' = EndCall(r)
    /\ CtlRest

\* an active run settles, and send's async function runs to its end
CtlOrchReturn ==
    /\ \E r \in ReturnSteps(ctl) : ctl' = EndCall(r)
    /\ CtlRest

CtlNext ==
    \/ CtlSend
    \/ CtlCancel
    \/ CtlSubscribe
    \/ CtlUnsubscribe
    \/ CtlHelper
    \/ CtlOrchStage
    \/ CtlOrchNote
    \/ CtlOrchReturn

CtlSpec == CtlInit /\ [][CtlNext]_vars

\* ------------------------------------------------------- terms of the claims
Done == run.pc = "done"
Status == run.result.status
NumBatches == Len(Batches(run))
\* the files of batch b (0-based, as the loop counts)
FilesOfBatch(b) == SeqToSet(Batches(run)[b + 1])
\* the batches the prepared list was split into (none before prepare returned)
RunBatches == IF Len(run.prepared) = 0 THEN {} ELSE 0..(NumBatches - 1)
UploadCalls(f) == tk[f].attempt
TaskSettled(f) == tk[f].st \in {"idle", "ok", "fail"}
FinalizeGood(b) ==
    /\ run.finOut[b].ret = "data"
    /\ run.finOut[b].finalizeOk
    /\ run.finOut[b].failed = "empty"
FinalizeBad(b) == run.finOut[b].ret # "none" /\ ~FinalizeGood(b)
PlanLacksFile(b) ==
    /\ run.startOut[b].ret = "data"
    /\ ~(FilesOfBatch(b) \subseteq run.startOut[b].plan)

\* ---------------------------------------------------------------------- C1
\* C1: whatever the scanner, the preparer, the API, the uploader and the
\* stage/note observers do (succeed, return a failure, throw), run never
\* rejects: once it has settled, its result has status success, failure or
\* cancelled, and before that it has no result.
C1_RunNeverRejects ==
    IF Done THEN Status \in {"success", "failure", "cancelled"}
    ELSE Status = "none"

\* the stage observer threw on the very last report, setStage(Done), and
\* the run has resolved with a failure
C1_Witness ==
    /\ Done
    /\ run.obsThrew
    /\ run.stage = "Done"
    /\ Status = "failure"
    /\ run.caught.kind = "undefined"

\* ---------------------------------------------------------------------- C2
\* C2: a run with a non-empty prepared list reports success only if, for
\* every batch, startBlobBatch returned a non-empty plan, every file of the
\* batch has an upload attempt that succeeded, finalize returned ok with
\* finalizeOk and no failed name, and enqueue returned ok.
C2_SuccessOnlyIfAllUploaded ==
    (Done /\ Status = "success" /\ Len(run.prepared) > 0) =>
        \A b \in RunBatches :
            /\ run.startOut[b].ret = "data"
            /\ run.startOut[b].plan # {}
            /\ \A f \in FilesOfBatch(b) : tk[f].st = "ok"
            /\ FinalizeGood(b)
            /\ run.enqOut[b] = "data"

\* ---------------------------------------------------------------------- C3
\* the collaborators behaved as scenario A says, for every batch: a plan
\* with an entry per file, every upload succeeding on its first attempt,
\* finalize ok with no failed name, enqueue accepted, no abort
C3_Happy ==
    /\ Done
    /\ ~aborted
    /\ Len(run.prepared) > 0
    /\ \A b \in RunBatches :
          /\ run.startOut[b].ret = "data"
          /\ FilesOfBatch(b) \subseteq run.startOut[b].plan
          /\ \A f \in FilesOfBatch(b) : tk[f].st = "ok" /\ UploadCalls(f) = 1
          /\ FinalizeGood(b)
          /\ run.enqOut[b] = "data"

C3_Outcome ==
    /\ Status = "success"
    /\ run.result.finalStage = "Done"
    /\ \A f \in SeqToSet(run.prepared) : UploadCalls(f) = 1
    /\ \A b \in RunBatches :
          run.startCalls[b] = 1 /\ run.finCalls[b] = 1 /\ run.enqCalls[b] = 1

C4_EmptyIsNoOpAndObserved ==
    (Done /\ ~run.obsThrew /\ Len(run.prepared) = 0
          /\ (run.scanCalls = 1 /\ run.caught.kind = "none")) =>
        /\ Status = "success"
        /\ run.result.finalStage = "Done"
        /\ \A b \in BatchIds :
              run.startCalls[b] = 0 /\ run.finCalls[b] = 0 /\ run.enqCalls[b] = 0
        /\ \A f \in Files : UploadCalls(f) = 0
        /\ run.seen # <<>> /\ run.seen[Len(run.seen)] = "Done"

\* ---------------------------------------------------------------------- C5
\* C5: once finalizeBlobBatch has been called for a batch, no upload task
\* of that batch is still in flight (attempt pending or backing off).
C5_FinalizeAfterUploadsSettle ==
    \A b \in RunBatches :
        run.finCalls[b] > 0 => \A f \in FilesOfBatch(b) : TaskSettled(f)

\* finalize is pending for a batch of two files that two workers uploaded,
\* one of them after a retry
C5_Witness ==
    /\ run.pc = "finalize"
    /\ Cardinality(FilesOfBatch(run.i)) = 2
    /\ \A f \in FilesOfBatch(run.i) : tk[f].st = "ok"
    /\ \E f \in FilesOfBatch(run.i) : UploadCalls(f) = 2
    /\ run.parallelism > 1

\* ---------------------------------------------------------------------- C6
\* C6: when the plan of a batch lacks an entry for one of its files, the
\* uploader is called for no file of that batch, and the run ends in
\* failure with code MissingUploadPlan.
C6_MissingPlanStopsBatch ==
    \A b \in RunBatches :
        PlanLacksFile(b) =>
            /\ \A f \in FilesOfBatch(b) : UploadCalls(f) = 0
            /\ Done => /\ Status = "failure"
                        /\ run.result.error.code = "MissingUploadPlan"

\* ---------------------------------------------------------------------- C7
\* C7: a run during which the signal was aborted (the abort can only come
\* before the run has returned) ends with status cancelled.
C7_AbortAlwaysCancels == (Done /\ aborted) => Status = "cancelled"

\* ---------------------------------------------------------------------- C8
\* C8: when a fault reaches run's catch block while the signal is aborted,
\* the result is cancelled, carries no error, and logger.error is not called.
C8_CancelOverridesFault ==
    (Done /\ aborted /\ run.caught.kind # "none") =>
        /\ Status = "cancelled"
        /\ run.result.error = NoErr
        /\ run.logErrors = 0

\* a FinalizeMismatch fault was caught while the signal was aborted
C8_Witness ==
    /\ Done
    /\ aborted
    /\ run.caught.code = "FinalizeMismatch"
    /\ Status = "cancelled"

\* ---------------------------------------------------------------------- C9
\* enqueue is called for a batch only after its finalize returned ok with
\* finalizeOk and no failed name; otherwise it is not called for that batch
C9_EnqueueGated ==
    \A b \in BatchIds :
        /\ run.enqCalls[b] > 0 => FinalizeGood(b)
        /\ FinalizeBad(b) => run.enqCalls[b] = 0

\* C9 as stated: enqueue is gated on a good finalize, and a finalize that
\* returns a failure, finalizeOk = false or failed names ends the run with
\* status failure.
C9_FinalizeGatesEnqueue_Original ==
    /\ C9_EnqueueGated
    /\ \A b \in BatchIds : FinalizeBad(b) => (Done /\ Status = "failure")

\* C9 (amended): ... ends the run with status failure, or with status
\* cancelled when the signal is aborted by the time the fault is handled.
C9_FinalizeGatesEnqueue ==
    /\ C9_EnqueueGated
    /\ \A b \in BatchIds :
          FinalizeBad(b) =>
              /\ Done
              /\ Status = (IF aborted THEN "cancelled" ELSE "failure")

\* the second batch's finalize said finalizeOk = false: no enqueue for it
C9_Witness ==
    /\ run.finOut[1].ret = "data"
    /\ ~run.finOut[1].finalizeOk
    /\ run.enqCalls[0] = 1
    /\ run.enqCalls[1] = 0
    /\ Status = "failure"

BlankRequest ==
    \/ Trim(req.workOrderId) = ""
    \/ Trim(req.batchId) = ""
    \/ Trim(req.custPath) = ""
NoCollaboratorCalled ==
    /\ run.scanCalls = 0
    /\ run.prepCalls = 0
    /\ \A b \in BatchIds :
          run.startCalls[b] = 0 /\ run.finCalls[b] = 0 /\ run.enqCalls[b] = 0
    /\ \A f \in Files : UploadCalls(f) = 0

\* C11: when workOrderId, batchId or custPath is missing or blank, no
\* collaborator is ever called, and the run ends with status failure and a
\* non-retryable error of kind InvalidInput.
C11_BlankFieldIsInvalidInput ==
    BlankRequest =>
        /\ NoCollaboratorCalled
        /\ Done => /\ Status = "failure"
                   /\ run.result.error.code = "InvalidInput"
                   /\ ~run.result.error.retryable

\* --------------------------------------------------------------------- C12
\* the batch a file of the prepared list belongs to
BatchOfFile(f) == CHOOSE b \in RunBatches : f \in FilesOfBatch(b)
\* the batches that have a collaborator call pending: an upload attempt or
\* a backoff sleep of one of their files, or the API call run waits for
PendingBatches ==
    {BatchOfFile(f) : f \in {g \in SeqToSet(run.prepared) : ~TaskSettled(g)}}
      \cup (IF run.pc \in {"start", "upload", "finalize", "enqueue"}
            THEN {run.i} ELSE {})
BatchCompleted(b) ==
    /\ \A f \in FilesOfBatch(b) : tk[f].st = "ok"
    /\ FinalizeGood(b)
    /\ run.enqOut[b] = "data"

\* C12: startBlobBatch of batch k+1 is called only after the uploads,
\* finalize and enqueue of batch k have all completed successfully, and
\* collaborator calls of two different batches are never pending together.
C12_BatchesInOrderNoOverlap ==
    /\ \A b \in RunBatches :
          run.startCalls[b] > 0 => \A k \in 0..(b - 1) : BatchCompleted(k)
    /\ Cardinality(PendingBatches) <= 1

\* --------------------------------------------------------------------- C13
\* clamp(x, lo, hi) as the claim means it, for a finite x; a non-finite x
\* is given the smallest bound any reading allows, lo
ClampBound(x, lo, hi) == IF x.t = "num" THEN Max(lo, Min(hi, x.v)) ELSE lo
\* recommendedParallelism if given, else clientParallelismHint, else 8
GivenParallelism ==
    IF rl.rec.t # "absent" THEN rl.rec
    ELSE IF rl.hint.t # "absent" THEN rl.hint
    ELSE Num(8)

\* C13: the number of tasks started and not yet settled never exceeds
\* clamp(parallelism, 1, 64), and when the orchestrator makes the call it
\* never exceeds clamp(recommended or hint or 8, 1, 16), for zero,
\* negative, huge and non-finite values alike.
C13_InFlightBounded ==
    rl.phase # "idle" =>
        /\ Cardinality(InFlightTasks) <= ClampBound(rl.arg, 1, 64)
        /\ rl.from = "run" =>
              Cardinality(InFlightTasks) <= ClampBound(GivenParallelism, 1, 16)

\* three tasks under a non-finite parallelism: one is in flight, one is
\* done, one waits
C13_Witness ==
    /\ rl.n = 3
    /\ rl.arg = NonFinite
    /\ Cardinality(InFlightTasks) = 1
    /\ tk[1].st = "ok"
    /\ tk[3].st = "idle"

\* --------------------------------------------------------------------- C14
\* C14: runLimited settles (returns or throws) only after every task it
\* started has settled: when the call settles, no task is in flight.
C14_SettlesAfterAllTasks ==
    rl.phase = "settled" => (rl.liveAtSettle = {} /\ InFlightTasks = {})

\* --------------------------------------------------------------------- C15
\* the number of workers the call started
PoolWorkers == Cardinality({w \in PoolTasks : rl.wk[w].st # "none"})

\* C15: with more than one worker, once a task has failed and a worker has
\* recorded its error, no task that had not been started by then is
\* started: the number of started tasks stays what it was at the failure.
C15_NoStartAfterFailure ==
    (PoolWorkers > 1 /\ rl.startedAtFail >= 0) => Len(rl.order) = rl.startedAtFail

\* --------------------------------------------------------------------- C16
StartedFiles == {f \in Files : tk[f].st # "idle"}
\* the signal was aborted while runLimited was awaited, after some task of
\* the batch had been started
AbortedInTransfer ==
    /\ run.atAbort.inUpload
    /\ run.atAbort.started \cap FilesOfBatch(run.i) # {}

C17_FirstErrorWins ==
    rl.recorded # <<>> =>
        /\ rl.firstErr = rl.recorded[1]
        /\ (rl.phase = "settled" /\ ~aborted) => rl.out = rl.recorded[1]

\* --------------------------------------------------------------------- C18
\* tasks are claimed in increasing index order, each at most once: the
\* k-th task started is task k
C18_ClaimedInOrder == \A k \in 1..Len(rl.order) : rl.order[k] = k

\* C18: every task is started at most once, in increasing index order, and
\* when runLimited returns normally for N tasks, each of the N tasks was
\* started exactly once and completed successfully.
C18_EachTaskOnceAllDone ==
    /\ C18_ClaimedInOrder
    /\ (rl.phase = "settled" /\ rl.out = NoErr) =>
          /\ Len(rl.order) = rl.n
          /\ \A t \in 1..rl.n : tk[t].st = "ok"

\* --------------------------------------------------------------------- C19
\* C19: no file ever has more than maxAttempts (3) upload attempts, whatever
\* the uploader does, and shouldRetry(err, attempt, policy) is false
\* whenever attempt >= policy.maxAttempts.
C19_AttemptsBounded ==
    /\ \A f \in Files : UploadCalls(f) <= Attempts
    /\ \A a \in RetryAttempts, p \in Policies, r \in BOOLEAN :
          a >= p.maxAttempts =>
              ~shouldRetry(UploadError(IF r THEN "PutFailed" ELSE "InvalidInput", "none"),
                           a, p)

\* a file whose three attempts all failed: uploadWithRetry gave up with
\* UploadFailed and the run has ended in failure
C19_Witness ==
    /\ \E f \in Files : tk[f].st = "fail" /\ UploadCalls(f) = Attempts
    /\ Done
    /\ Status = "failure"
    /\ run.result.error.code = "UploadFailed"

\* --------------------------------------------------------------------- C20
\* base * 2^(a-1), a >= 1
Exponential(base, a) == base * Pow2(a - 1)
\* ms = min(maxDelay, base * 2^(a-1)) + a jitter in [0, jitterMax]; hence
\* within [base*2^(a-1), base*2^(a-1) + jitterMax] while uncapped, and
\* never above maxDelay + jitterMax
BackoffAsSpecified(ms, a, base, maxDelay, jitterMax) ==
    /\ ms - Min(maxDelay, Exponential(base, a)) \in 0..jitterMax
    /\ Exponential(base, a) <= maxDelay =>
          ms \in Exponential(base, a)..(Exponential(base, a) + jitterMax)
    /\ ms <= maxDelay + jitterMax

\* C20: the delay after failed attempt a is min(maxDelay, base * 2^(a-1))
\* plus a jitter in [0, jitterMax], for computeBackoffMs (and backoffMs)
\* under their policy and for the delay uploadWithRetry hands to
\* clock.sleep in the orchestrator (base 350, no jitter of its own, under
\* the default policy's cap).
C20_BackoffWithinBounds ==
    /\ retry.fn = "computeBackoffMs" =>
          BackoffAsSpecified(retry.ms, retry.attempt, retry.policy.baseDelayMs,
                             retry.policy.maxDelayMs, retry.policy.jitterMs)
    /\ retry.fn = "backoffMs" =>
          BackoffAsSpecified(retry.ms, retry.attempt, retry.policy.baseDelayMs,
                             retry.policy.maxDelayMs, BackoffJitterMs)
    /\ (retry.fn = "uploadWithRetry" /\ retry.yes) =>
          /\ retry.ms = Exponential(BaseDelayMs, retry.attempt)
          /\ BackoffAsSpecified(retry.ms, retry.attempt, BaseDelayMs,
                                defaultRetryPolicy.maxDelayMs, defaultRetryPolicy.jitterMs)

\* computeBackoffMs after the sixth attempt under the default policy: the
\* exponential 16000 is capped to 8000, and a jitter above 0 is added
C20_Witness ==
    /\ retry.fn = "computeBackoffMs"
    /\ retry.policy = defaultRetryPolicy
    /\ retry.attempt = 6
    /\ retry.ms > 8000

\* --------------------------------------------------------------------- C21
\* C21: when an upload attempt fails with a fault the error taxonomy
\* classifies as non-retryable, the retry engine raises at once: it does not
\* go on to a retry note, a sleep and a further attempt. Both decision
\* procedures of the repository are held to it: shouldRetry, and the loop of
\* uploadWithRetry that the orchestrator runs.
C21_NonRetryableRaisesAtOnce ==
    (retry.phase = "result" /\ retry.fn \in {"shouldRetry", "uploadWithRetry"}
       /\ ~retry.retryable) =>
        (~retry.yes /\ retry.ms = 0)

\* --------------------------------------------------------------------- C22
\* the retry notes recorded for file f, in the order they were recorded
RetryNotesOf(f) == SelectSeq(run.notes, LAMBDA n : n.k = "Retry" /\ n.f = f)
\* the failed upload attempts of f that were followed by another attempt
FollowedAttempts(f) == Max(0, UploadCalls(f) - 1)
\* the retry of f that was announced last never came: the note's observer
\* threw or the backoff sleep rejected, which ended the task
RetryCutShort(f) ==
    tk[f].st = "fail" /\ UploadCalls(f) >= 1 /\ UploadCalls(f) < Attempts
\* the k-th retry note of f names attempt k + 1, the one about to be made
RetryNotesNumbered(f) ==
    \A k \in 1..Len(RetryNotesOf(f)) : RetryNotesOf(f)[k].a = k + 1

\* C22 as stated: for every file whose task is not in a backoff sleep (where
\* the announced attempt is still to come), the number of retry notes equals
\* the number of its failed attempts that were followed by another attempt,
\* and each note names the attempt about to be made.
C22_RetryNotePerRetry_Original ==
    \A f \in Files :
        tk[f].st # "sleep" =>
            /\ Len(RetryNotesOf(f)) = FollowedAttempts(f)
            /\ RetryNotesNumbered(f)

\* C22 (amended): the note is recorded when the retry is decided, before the
\* backoff sleep. The number of retry notes of a file equals the number of
\* its failed attempts that were followed by another attempt, plus one when
\* the last announced retry was cut short by the note observer throwing or
\* the sleep rejecting; each note names the attempt about to be made, and a
\* file that succeeds on its first attempt has no retry note.
C22_RetryNotePerRetry ==
    \A f \in Files :
        /\ tk[f].st # "sleep" =>
              Len(RetryNotesOf(f)) =
                  FollowedAttempts(f) + (IF RetryCutShort(f) THEN 1 ELSE 0)
        /\ RetryNotesNumbered(f)
        /\ (tk[f].st = "ok" /\ UploadCalls(f) = 1) => RetryNotesOf(f) = <<>>

\* scenario C: a file failed once, succeeded on its second attempt, has one
\* retry note, and the run ended in success
C22_Witness ==
    /\ Done
    /\ Status = "success"
    /\ \E f \in Files :
          /\ tk[f].st = "ok"
          /\ UploadCalls(f) = 2
          /\ RetryNotesOf(f) = <<Note("Retry", 2, f)>>

\* --------------------------------------------------------------------- C27
\* C27: logger.error is called exactly once in a run that ends with status
\* failure and never in a run that ends in success or cancelled, and never
\* before the run ends; a failed attempt that a retry recovers leaves a
\* note and no log record.
C27_LogOncePerFailure ==
    /\ ~Done => run.logErrors = 0
    /\ Done => run.logErrors = (IF Status = "failure" THEN 1 ELSE 0)

\* a run that failed and logged once, in which one file had been recovered
\* by a retry (one note) before the fault
C27_Witness ==
    /\ Done
    /\ Status = "failure"
    /\ run.logErrors = 1
    /\ \E f \in Files :
          tk[f].st = "ok" /\ UploadCalls(f) = 2 /\ Len(RetryNotesOf(f)) = 1

\* --------------------------------------------------------------------- C28
\* the position of a stage in the order of the pipeline
StageRank(s) ==
    CASE s = "PreInit" -> 0
      [] s = "Init" -> 1
      [] s = "Folder" -> 2
      [] s = "Scan" -> 3
      [] s = "Prep" -> 4
      [] s = "StartBatch" -> 5
      [] s = "Upload" -> 6
      [] s = "Finalize" -> 7
      [] s = "EnqueuePostProcessing" -> 8
      [] s = "Done" -> 9

\* C28: the stages reported to the stage observer in one run are strictly
\* forward in the pipeline's order: no stage is reported after a later (or
\* the same) stage has been reported, for any number of batches.
C28_StagesStrictlyForward ==
    \A i, j \in 1..Len(run.seen) :
        i < j => StageRank(run.seen[i]) < StageRank(run.seen[j])

\* --------------------------------------------------------------------- C29
\* C29: the result of every run carries the terminal stage that matches its
\* status: Done if and only if the status is success, Error if and only if
\* it is failure, and Cancelled, a stage of its own, if and only if it is
\* cancelled.
C29_TerminalStageMatchesStatus ==
    Done =>
        /\ (run.result.finalStage = "Done") <=> (Status = "success")
        /\ (run.result.finalStage = "Error") <=> (Status = "failure")
        /\ (run.result.finalStage = "Cancelled") <=> (Status = "cancelled")

\* --------------------------------------------------------------------- C30
\* The signal changes only between two synchronous stretches of run, so a
\* stage that begins in a step taken while aborted is TRUE begins with the
\* signal already aborted.
ScanNotCalled == run'.scanCalls = run.scanCalls
PrepNotCalled == run'.prepCalls = run.prepCalls
StartNotCalled == run'.startCalls = run.startCalls
\* the Upload stage begins in the step that follows startBlobBatch
UploaderNotCalled == run.pc = "start" => \A f \in Files : tk'[f].attempt = tk[f].attempt
FinalizeNotCalled == run'.finCalls = run.finCalls
EnqueueNotCalled == run'.enqCalls = run.enqCalls

\* C30: when the signal is already aborted as a stage is about to begin,
\* the collaborator of that stage (scanner, preparer, startBlobBatch,
\* uploader, finalizeBlobBatch, enqueueBlobPostProcessing) is not called.
C30_AbortedStageCallsNothing ==
    [][aborted =>
          /\ ScanNotCalled
          /\ PrepNotCalled
          /\ StartNotCalled
          /\ UploaderNotCalled
          /\ FinalizeNotCalled
          /\ EnqueueNotCalled]_vars

\* ------------------------------------------------------------------- C23
\* the results of all the operations that can act on controller c
CtlCalls(c) ==
    SendCalls(c) \cup CancelCalls(c) \cup SubscribeCalls(c) \cup UnsubscribeCalls(c)
      \cup HelperCalls(c) \cup StageSteps(c) \cup NoteSteps(c) \cup ReturnSteps(c)

\* at most one orchestrator run is active
OneActiveRun == Cardinality(ActiveRuns(ctl)) <= 1
\* a call of send made while a run is in progress returns the promise of
\* that run, wherever the call comes from
SendsJoinTheRun ==
    \A r \in CtlCalls(ctl) : \A i \in DOMAIN r.sends :
        r.sends[i].during # 0 => r.sends[i].got = r.sends[i].during
\* the same, for the calls of send that come from outside only
OutsideSendsJoinTheRun ==
    \A r \in CtlCalls(ctl) : \A i \in DOMAIN r.sends :
        r.sends[i].during # 0 /\ r.sends[i].by = 0 /\ ctl.inflight # 0
            => r.sends[i].got = ctl.inflight /\ r.nProm = ctl.nProm

\* C23: at most one orchestrator run is active at any time, and every call
\* of send made while a run is in progress, a call from a listener while
\* send is starting the run included, returns the promise of that run and
\* starts no other run.
C23_SingleFlight == OneActiveRun /\ SendsJoinTheRun

\* ------------------------------------------------------------------- C24
\* the results of the operations other than the return of a run
CallsBeforeReturn(c) ==
    SendCalls(c) \cup CancelCalls(c) \cup SubscribeCalls(c) \cup UnsubscribeCalls(c)
      \cup HelperCalls(c) \cup StageSteps(c) \cup NoteSteps(c)
\* the statuses an operation has set, in order
StatusesSet(r) == {r.log["status"][i] : i \in DOMAIN r.log["status"]}

\* cancel, called while a run is active, leaves status and stage as they
\* are and notifies no status listener
CancelLeavesStatus ==
    ActiveRuns(ctl) # {} =>
        \A r \in CancelCalls(ctl) :
            /\ r.status = ctl.status
            /\ r.stage = ctl.stage
            /\ r.log["status"] = <<>>
\* cancel, called while a run is active, aborts the signal of that run
CancelAbortsTheRun ==
    \A r \in CancelCalls(ctl) : \A k \in ActiveRuns(ctl) : r.sig[k]
\* the status becomes cancelled only as a run returns
CancelledOnlyOnReturn ==
    \A r \in CallsBeforeReturn(ctl) : "cancelled" \notin StatusesSet(r)

\* C24: cancel, called while a run is active, aborts that run's signal and
\* leaves the controller's status and stage unchanged, notifying no status
\* listener; the status becomes cancelled only when the orchestrator has
\* returned.
C24_CancelOnlySignals ==
    CancelLeavesStatus /\ CancelAbortsTheRun /\ CancelledOnlyOnReturn

\* ------------------------------------------------------------------- C25
\* the values listener l was called with in operation r, in order
Heard(r, l) ==
    [i \in DOMAIN r.ls[l].got |-> r.log[r.ls[l].chan][r.ls[l].got[i]]]

\* A status or stage listener that was subscribed when operation r began
\* has been called once with each value r gave its channel, in order: with
\* all of them if it is still subscribed, with those up to its
\* unsubscription if not.
HeardEveryChange(c, r, l) ==
    LET ch == c.ls[l].chan
    IN  c.ls[l].on /\ ch \in {"status", "stage"} =>
            Heard(r, l) = SubSeq(r.log[ch], 1,
                                 IF r.ls[l].on THEN Len(r.log[ch]) ELSE r.ls[l].offLen)
\* a listener is not called after it has unsubscribed
SilentOnceUnsubscribed(c, r, l) ==
    /\ c.ls[l].on /\ ~r.ls[l].on => Len(r.ls[l].got) = r.ls[l].offAt
    /\ ~c.ls[l].on /\ ~r.ls[l].on => r.ls[l].got = <<>>
\* a listener that subscribes is called with the current value at once, if
\* it listens to the status or the stage, and with no message of the past
ReplaysCurrentValue(c, r, l) ==
    ~c.ls[l].on /\ r.ls[l].on =>
        /\ r.ls[l].fresh
        /\ r.ls[l].got = IF r.ls[l].chan = "message" THEN <<>> ELSE <<0>>

\* C25: a listener registered with onStatus or onStage is called with the
\* current value at once, then once for every later change, in the order
\* of the changes, and never after it has unsubscribed; a listener
\* registered with onMessage is never called with an earlier message.
C25_ListenersHearEveryChange ==
    \A r \in CtlCalls(ctl) : \A l \in Listeners :
        /\ HeardEveryChange(ctl, r, l)
        /\ SilentOnceUnsubscribed(ctl, r, l)
        /\ ReplaysCurrentValue(ctl, r, l)

\* ------------------------------------------------------------------- C26
TerminalStatuses == {"success", "failure", "cancelled"}
\* the steps of the lifecycle idle -> running -> terminal -> idle
LifecycleStep(a, b) ==
    \/ a = "idle" /\ b = "running"
    \/ a = "running" /\ b \in TerminalStatuses
    \/ a \in TerminalStatuses /\ b = "idle"
\* the statuses the controller passes through in operation r, from the
\* one it had in state c
StatusPath(c, r) == <<c.status>> \o r.log["status"]

\* the results of the operations of a run: all but the helpers, which set
\* the status to whatever their caller asks for
RunCalls(c) ==
    SendCalls(c) \cup CancelCalls(c) \cup SubscribeCalls(c) \cup UnsubscribeCalls(c)
      \cup StageSteps(c) \cup NoteSteps(c) \cup ReturnSteps(c)

\* no helper has been called, and no listener throws or calls send
Undisturbed(c) ==
    /\ c.helpers = 0
    /\ \A l \in Listeners : c.ls[l].react \in {"none", "unsub"}

\* C26: the status follows the lifecycle idle -> running -> one of success,
\* failure, cancelled -> idle: it returns to idle after every run, and
\* running is entered from idle only. The statement is about the changes
\* of the status that send, cancel and the orchestrator make on a
\* controller that is left undisturbed; setting the status it already has
\* is no change.
C26_StatusLifecycle ==
    Undisturbed(ctl) =>
        \A r \in RunCalls(ctl) :
            LET p == StatusPath(ctl, r)
            IN  \A i \in 1..(Len(p) - 1) :
                    p[i] = p[i + 1] \/ LifecycleStep(p[i], p[i + 1])

\* --------------------------------------------------------------------- C31
\* The batching of run by itself (UploadOrchestrator.ts 182-201): BatchSpec
\* follows one run whose collaborators all succeed from the return of
\* filePrep.prepare to the end of the batch loop, for prepared lists of up
\* to MaxPrepared files and every kind of batchSizeHint. In BatchSpec the
\* variable run holds the locals prepared, batchSize, batches and i, and
\* startCalls, the file lists startBlobBatch was called with, in call order.
MaxPrepared == 4

\* +Infinity and -Infinity: non-finite like NaN (NonFinite), told apart by v
PosInfinity == [t |-> "nonfinite", v |-> 1]
NegInfinity == [t |-> "nonfinite", v |-> -1]

\* batchSizeHint: absent, NaN, +-Infinity, negative, zero, within the list,
\* larger than the list
BatchHints ==
    {Absent, NonFinite, PosInfinity, NegInfinity}
      \cup {Num(k) : k \in -1..(MaxPrepared + 1)}

BatchIdle ==
    [pc |-> "prep", prepared |-> <<>>, batchSize |-> 0, batches |-> <<>>,
     i |-> 0, startCalls |-> <<>>]

BatchInit ==
    /\ req \in {[PlainRequest EXCEPT !.batchSizeHint = h] : h \in BatchHints}
    /\ run = BatchIdle
    /\ aborted = FALSE
    /\ rl = InitRl
    /\ tk = [f \in Files |-> InitTask]
    /\ retry = RetryIdle
    /\ ctl = CtlIdle("current")

\* prepare returned m > 0 files:
\* batchSize = clampInt(req.batchSizeHint ?? prepared.length, 1, prepared.length);
\* batches = chunk(prepared, batchSize)
BatchPlan ==
    /\ run.pc = "prep"
    /\ \E m \in 1..MaxPrepared :
         LET prepared == [x \in 1..m |-> x]
             batchSize == clampInt(OrElse(req.batchSizeHint, Num(m)), 1, m)
         IN  run' = [run EXCEPT !.pc = "loop",
                                !.prepared = prepared,
                                !.batchSize = batchSize,
                                !.batches = chunk(prepared, batchSize),
                                !.i = 0]
    /\ UNCHANGED <<ctl, retry, req, aborted, rl, tk>>

\* for (let i = 0; i < batches.length; i++): batchFiles = batches[i] goes to
\* startBlobBatch; the batch's uploads, finalize and enqueue succeed
BatchStart ==
    /\ run.pc = "loop"
    /\ run.i < Len(run.batches)
    /\ run' = [run EXCEPT !.startCalls = Append(@, run.batches[run.i + 1]),
                          !.i = @ + 1]
    /\ UNCHANGED <<ctl, retry, req, aborted, rl, tk>>

\* the loop ends and run returns
BatchEnd ==
    /\ run.pc = "loop"
    /\ run.i >= Len(run.batches)
    /\ run' = [run EXCEPT !.pc = "done"]
    /\ UNCHANGED <<ctl, retry, req, aborted, rl, tk>>

BatchNext == BatchPlan \/ BatchStart \/ BatchEnd

BatchSpec == BatchInit /\ [][BatchNext]_vars

RECURSIVE Concat(_)
Concat(ss) == IF Len(ss) = 0 THEN <<>> ELSE Head(ss) \o Concat(Tail(ss))

\* clamp(x, lo, hi) of a number x; +Infinity clamps to hi, -Infinity to lo,
\* and NaN, which has no place in the order, is given lo
MathClamp(x, lo, hi) ==
    IF x.t = "num" THEN Max(lo, Min(hi, x.v))
    ELSE IF x.v > 0 THEN hi ELSE lo

\* the batches are an ordered, non-overlapping partition of the prepared
\* list into non-empty batches
BatchesPartition ==
    /\ Concat(run.batches) = run.prepared
    /\ \A k \in DOMAIN run.batches : Len(run.batches[k]) >= 1

\* every batch but the last has exactly size files, the last at most size
BatchesOfSize(size) ==
    \A k \in DOMAIN run.batches :
        IF k < Len(run.batches) THEN Len(run.batches[k]) = size
        ELSE Len(run.batches[k]) <= size

\* the startBlobBatch calls a prepared file was submitted in
StartCallsOf(f) == {k \in DOMAIN run.startCalls : f \in SeqToSet(run.startCalls[k])}

\* the calls made are the batches in order, no file is submitted twice, and
\* once the loop has ended every file was submitted exactly once
SubmittedOnce ==
    /\ run.startCalls = SubSeq(run.batches, 1, run.i)
    /\ \A f \in SeqToSet(run.prepared) :
          /\ Cardinality(StartCallsOf(f)) <= 1
          /\ run.pc = "done" => Cardinality(StartCallsOf(f)) = 1

Exhausted(f) == tk[f].st = "fail" /\ UploadCalls(f) = Attempts

\* C32: when all attempts of a file's upload have failed and no
\* cancellation was signalled, the run ends with status failure, the error
\* has the transfer-failure kind (PutFailed) whatever the attempts failed
\* with, and its cause is the failure of the last attempt.
C32_ExhaustionIsTransferFailed ==
    (Done /\ ~aborted /\ \E f \in Files : Exhausted(f)) =>
        /\ Status = "failure"
        /\ run.result.error.code = "PutFailed"
        /\ run.result.error.cause = "Error"

\* --------------------------------------------------------------------- C33
\* The error constructor of domain/Errors.ts by itself. ErrorSpec draws a
\* code and the options stage and retryable in its initial state and applies
\* isRetryable or makeError (new UploadError(code, message, opts)) to them.
\* In ErrorSpec the variable retry holds the arguments and the result.

\* the members of UploadErrorCode, and the two names the orchestrator uses
\* that are no members
ErrorCodes ==
    {"NoInternet", "Cancelled", "Timeout", "InvalidInput", "ScanFailed",
     "PrepFailed", "StartFailed", "MissingUploadPlan", "PutFailed",
     "FinalizeFailed", "FinalizeMismatch", "EnqueueFailed", "Unexpected",
     "ValidationFailed", "UploadFailed"}

\* opts.retryable and opts.stage, "absent" when not given
ErrorOpts ==
    [retryable : {"absent", "true", "false"}, stage : {"absent", "Upload", "Finalize"}]

\* makeError(code, message, opts): new UploadError(code, message, opts) with
\* stage = opts?.stage ?? UploadStage.Failure and
\* retryable = opts?.retryable ?? isRetryable(code)
makeError(code, opts) ==
    [kind |-> "UploadError", code |-> code,
     stage |-> IF opts.stage = "absent" THEN "Failure" ELSE opts.stage,
     retryable |-> IF opts.retryable = "absent" THEN isRetryable(code)
                   ELSE opts.retryable = "true",
     cause |-> "none"]

ErrorIdle ==
    [phase |-> "args", fn |-> "none", code |-> "Unexpected",
     opts |-> [retryable |-> "absent", stage |-> "absent"],
     yes |-> FALSE, err |-> NoErr]

ErrorInit ==
    /\ req = PlainRequest
    /\ aborted = FALSE
    /\ run = InitRun
    /\ rl = InitRl
    /\ tk = [f \in Files |-> InitTask]
    /\ \E code \in ErrorCodes, opts \in ErrorOpts :
         retry = [ErrorIdle EXCEPT !.code = code, !.opts = opts]
    /\ ctl = CtlIdle("current")

ApplyIsRetryable ==
    /\ retry.phase = "args"
    /\ retry' = [retry EXCEPT !.phase = "result", !.fn = "isRetryable",
                              !.yes = isRetryable(retry.code)]
    /\ UNCHANGED <<ctl, req, aborted, run, rl, tk>>

ApplyMakeError ==
    /\ retry.phase = "args"
    /\ retry' = [retry EXCEPT !.phase = "result", !.fn = "makeError",
                              !.err = makeError(retry.code, retry.opts)]
    /\ UNCHANGED <<ctl, req, aborted, run, rl, tk>>

ErrorNext == ApplyIsRetryable \/ ApplyMakeError

ErrorSpec == ErrorInit /\ [][ErrorNext]_vars

\* the kinds the specification lists as retryable by default: Connectivity,
\* Timeout, TransferFailed, StartPlanFailed, EnqueueFailed, Unexpected
RetryableByDefault ==
    {"NoInternet", "Timeout", "PutFailed", "StartFailed", "EnqueueFailed", "Unexpected"}

\* C33: the default retryability is true exactly for NoInternet, Timeout,
\* PutFailed, StartFailed, EnqueueFailed and Unexpected and false for every
\* other kind (InvalidInput, Cancelled, MissingUploadPlan, FinalizeFailed,
\* FinalizeMismatch, ...), and an UploadError built without an explicit
\* retryable flag carries that default.
C33_DefaultRetryability ==
    retry.phase = "result" =>
        /\ retry.fn = "isRetryable" =>
              (retry.yes <=> retry.code \in RetryableByDefault)
        /\ (retry.fn = "makeError" /\ retry.opts.retryable = "absent") =>
              (retry.err.retryable <=> retry.code \in RetryableByDefault)

\* --------------------------------------------------------------------- C34
\* The stage field of an error of the result. Every UploadError the
\* orchestrator builds (unwrapApi, assertNotAborted, the throws of run,
\* uploadWithRetry, and the Unexpected wrapper of the catch block) is
\* built without opts.stage, and the collaborators of the model throw no
\* UploadError of their own.
StageOfError(e) ==
    IF e.kind = "UploadError"
    THEN makeError(e.code, [retryable |-> "absent", stage |-> "absent"]).stage
    ELSE "none"

\* C34: every failure result carries one error whose stage field is the
\* stage the run was in when the fault occurred, with its kind, and the
\* notes recorded before the failure are returned with it.
C34_ErrorCarriesItsStage ==
    (Done /\ Status = "failure") =>
        /\ run.result.error.kind = "UploadError"
        /\ run.result.error.code # ""
        /\ StageOfError(run.result.error) = run.stage
        /\ run.result.notesLen <= Len(run.notes)

\* --------------------------------------------------------------------- C35
\* startBlobBatch returned ok: true with no plan entry for batch b
EmptyPlan(b) == run.startOut[b].ret = "data" /\ run.startOut[b].plan = {}

\* C35: when startBlobBatch returns successfully with zero plan entries for
\* a batch, no upload, finalize or enqueue call is made for that batch, and
\* the run (if not cancelled) ends with status failure and an error whose
\* retryable flag is false.
C35_EmptyPlanIsFatal ==
    \A b \in BatchIds :
        EmptyPlan(b) =>
            /\ \A f \in FilesOfBatch(b) : UploadCalls(f) = 0
            /\ run.finCalls[b] = 0
            /\ run.enqCalls[b] = 0
            /\ ~aborted =>
                  /\ Done
                  /\ Status = "failure"
                  /\ ~run.result.error.retryable

\* --------------------------------------------------------------------- C36
\* the run is over, no batch after b was started and no upload attempt or
\* backoff sleep is pending: nothing is left that could call a collaborator
StoppedAt(b) ==
    /\ Done
    /\ \A k \in BatchIds : k > b => run.startCalls[k] = 0
    /\ \A f \in Files : TaskSettled(f)

StartFailedAt(b) == run.startOut[b].ret = "fail"
FinalizeFailedAt(b) == run.finOut[b].ret = "fail"
EnqueueFailedAt(b) == run.enqOut[b] = "fail"

\* the call that failed was made once, and the calls that follow it in the
\* batch were not made
FailedCallMadeOnce(b) ==
    /\ StartFailedAt(b) =>
          /\ run.startCalls[b] = 1
          /\ \A f \in FilesOfBatch(b) : UploadCalls(f) = 0
          /\ run.finCalls[b] = 0
          /\ run.enqCalls[b] = 0
    /\ FinalizeFailedAt(b) => (run.finCalls[b] = 1 /\ run.enqCalls[b] = 0)
    /\ EnqueueFailedAt(b) => run.enqCalls[b] = 1

\* the error kind of the failure result names the call that failed
FailureNamesTheCall(b) ==
    /\ StartFailedAt(b) => run.result.error.code = "StartFailed"
    /\ FinalizeFailedAt(b) => run.result.error.code = "FinalizeFailed"
    /\ EnqueueFailedAt(b) => run.result.error.code = "EnqueueFailed"

\* C36 as stated: when enqueue (or startBlobBatch, or finalize) returns a
\* failure for a batch, the call was made exactly once for that batch, no
\* later batch is started, no further collaborator call is made, and the
\* run ends with status failure and the error kind of the failed call.
C36_FailStop_Original ==
    \A b \in BatchIds :
        (StartFailedAt(b) \/ FinalizeFailedAt(b) \/ EnqueueFailedAt(b)) =>
            /\ StoppedAt(b)
            /\ FailedCallMadeOnce(b)
            /\ Status = "failure"
            /\ FailureNamesTheCall(b)

\* C36 amended: as above, but the run ends with status cancelled, and no
\* error, when the signal was aborted before the failed call returned.
C36_FailStop ==
    \A b \in BatchIds :
        (StartFailedAt(b) \/ FinalizeFailedAt(b) \/ EnqueueFailedAt(b)) =>
            /\ StoppedAt(b)
            /\ FailedCallMadeOnce(b)
            /\ IF aborted
               THEN Status = "cancelled" /\ run.result.error = NoErr
               ELSE Status = "failure" /\ FailureNamesTheCall(b)

\* the first of two batches was uploaded and finalized, its enqueue
\* failed, and the second batch was never started
C36_Witness ==
    /\ NumBatches = 2
    /\ EnqueueFailedAt(0)
    /\ run.enqCalls[0] = 1
    /\ run.startCalls[1] = 0
    /\ Status = "failure"
    /\ run.result.error.code = "EnqueueFailed"

\* --------------------------------------------------------------------- C37
\* what a step does on behalf of the run
NoCallbackFires == run'.seen = run.seen /\ Len(run'.notes) = Len(run.notes)
NoAttemptStarts == \A f \in Files : tk'[f].attempt = tk[f].attempt
NoSleepStarts == \A f \in Files : tk'[f].st = "sleep" => tk[f].st = "sleep"
NotesKept == run'.notes = run.notes

\* C37: once run has resolved with its result, no stage or note callback of
\* that run fires, no upload attempt and no clock sleep is started, and the
\* notes list returned in the result is not appended to.
C37_NothingAfterResolve ==
    [][Done =>
          /\ NoCallbackFires
          /\ NoAttemptStarts
          /\ NoSleepStarts
          /\ NotesKept]_vars

\* --------------------------------------------------------------------- C38
\* operation r on controller c resolves the promise of send number k
Resolves(c, r, k) == c.prom[k].st # "resolved" /\ r.prom[k].st = "resolved"
\* the status listeners subscribed at the end of operation r
StatusListeners(r) == {l \in Listeners : r.ls[l].on /\ r.ls[l].chan = "status"}

\* the controller shows what the promise resolves with
ShowsTheResult(r, k) ==
    /\ r.status = r.prom[k].status
    /\ r.stage = r.prom[k].finalStage
\* every status listener was called, last with the result's status
ListenersHeardTheResult(r, k) ==
    \A l \in StatusListeners(r) :
        /\ Len(Heard(r, l)) > 0
        /\ Heard(r, l)[Len(Heard(r, l))] = r.prom[k].status
\* inflight and aborter are null again, and a send from outside that
\* follows gets another promise than the resolved one
HandlesCleared(r, k) ==
    /\ r.inflight = 0
    /\ r.aborter = 0
    /\ \A s \in SendCalls(EndCall(r)) :
          \A i \in DOMAIN s.sends : s.sends[i].by = 0 => s.sends[i].got # k

\* A send made by a listener while send is announcing the upload starts a
\* second run beside the first (inflight is assigned only after the async
\* function has run to its first await). The first of the two to return
\* clears inflight, and a send made by a listener while the other one is
\* concluding then starts a third run. NestSpec is the controller with room
\* for that third run, under the calls of this scenario: send, cancel, the
\* subscriptions, and the stage reports and the return of a run.
MaxNestedRuns == 3
NestIdle ==
    [CtlIdle("current") EXCEPT
        !.sig = [k \in 1..MaxNestedRuns |-> FALSE],
        !.runs = [k \in 1..MaxNestedRuns |-> NoOrchRun],
        !.prom = [k \in 1..MaxNestedRuns |-> NoPromise]]

NestInit ==
    /\ req = PlainRequest
    /\ aborted = FALSE
    /\ run = InitRun
    /\ rl = InitRl
    /\ tk = [f \in Files |-> InitTask]
    /\ retry = RetryIdle
    /\ ctl = NestIdle

NestNext ==
    \/ CtlSend
    \/ CtlCancel
    \/ CtlSubscribe
    \/ CtlUnsubscribe
    \/ CtlOrchStage
    \/ CtlOrchReturn

NestSpec == NestInit /\ [][NestNext]_vars

\* C38 (SendToCloudController.ts under src/application): when the promise
\* returned by send resolves, the controller's status and stage are the
\* result's status and finalStage, the last value every status listener was
\* called with is that status, and inflight and aborter have been cleared,
\* so that the next send starts a new run.
C38_ResolvedMeansSettled ==
    ctl.version = "current" =>
        \A r \in CtlCalls(ctl) : \A k \in RunSlots(ctl) :
            Resolves(ctl, r, k) =>
                /\ ShowsTheResult(r, k)
                /\ ListenersHeardTheResult(r, k)
                /\ HandlesCleared(r, k)

\* what holds of every promise that resolves, with three runs as with two:
\* inflight and aborter are null, and a send from outside that follows gets
\* another promise
ResolvedClearsHandles ==
    ctl.version = "current" =>
        \A r \in CtlCalls(ctl) : \A k \in RunSlots(ctl) :
            Resolves(ctl, r, k) => HandlesCleared(r, k)
\* and the whole of C38 holds of a return during which no listener calls send
SettledUnlessAListenerSends ==
    (\A l \in Listeners : ctl.ls[l].on => ctl.ls[l].react # "send")
        => C38_ResolvedMeansSettled

\* --------------------------------------------------------------------- C39
NoRunActive(c) == ActiveRuns(c) = {}

\* operation r called no listener, logged nothing and threw nothing
Silent(r) ==
    /\ \A ch \in Channels : r.log[ch] = <<>>
    /\ \A l \in Listeners : r.ls[l].got = <<>>
    /\ ~r.exc

\* cancel on controller c changes no state and notifies no listener
CancelIsNoOp(c) == \A r \in CancelCalls(c) : Silent(r) /\ EndCall(r) = c

\* a send that starts a run gives it a cancellation handle of its own: one
\* that is not aborted and is not the handle cancel would abort now
FreshHandlePerSend(c) ==
    \A r \in SendCalls(c) : \A k \in Promises :
        (c.runs[k].st = "none" /\ r.runs[k].st # "none") =>
            (~c.sig[k] /\ c.aborter # k)

\* C39: cancel is a no-op when no run is active (before the first send and
\* after a run has finished): it changes no state and notifies no
\* listener; and a cancel issued for one run never cancels a later run,
\* because each send creates a fresh cancellation handle.
C39_CancelIdleIsNoOp ==
    /\ NoRunActive(ctl) => CancelIsNoOp(ctl)
    /\ FreshHandlePerSend(ctl)

\* --------------------------------------------------------------------- C40
\* LiveSpec is Spec under the assumption that every collaborator call
\* settles and that the code which waits for it then runs: the steps of run
\* (the return or the throw of scan, prepare, startBlobBatch,
\* finalizeBlobBatch and enqueueBlobPostProcessing, and the settling of
\* Promise.all) and, for each worker, the settling of its upload call or of
\* its clock.sleep. Nothing is assumed about Abort.
RunStep ==
    \/ RunStart
    \/ ScanReturn \/ ScanThrow
    \/ PrepReturn \/ PrepThrow
    \/ StartReturn \/ StartFail \/ StartThrow
    \/ Join
    \/ FinalizeReturn \/ FinalizeFail \/ FinalizeThrow
    \/ EnqueueReturn \/ EnqueueFail \/ EnqueueThrow

CallSettles(w) == UploadOk(w) \/ UploadFail(w) \/ SleepDone(w) \/ SleepThrow(w)

LiveSpec ==
    /\ Spec
    /\ WF_vars(RunStep)
    /\ \A w \in Files : WF_vars(CallSettles(w))

InflightHasActiveRun ==
    (ctl.version = "current" /\ ctl.inflight # 0) => ctl.inflight \in ActiveRuns(ctl)
\* and the return of that run leaves inflight null
ReturnClearsInflight ==
    ctl.version = "current" => \A r \in ReturnSteps(ctl) : r.inflight = 0

====
